---- MODULE Spec2Model ----
(***************************************************************************)
(* A model of the improxy image proxy (wfxiang08/improxy): the option      *)
(* DSL (ParseOptions / Options.String), the diskv store behind the disk    *)
(* cache, the HTTP-semantics cache transport, the URL signer, the resize   *)
(* policy and the request normalizer.  Each subsystem has its own          *)
(* variables and its own specification; the variables of the subsystems a  *)
(* specification does not exercise stay at their idle values.              *)
(***************************************************************************)
EXTENDS Integers, Sequences, FiniteSets, TLC

VARIABLES
    optTrace,    \* option DSL: the chain o -> String(o) -> ParseOptions(..) -> ...
    cache,       \* Diskv.cache: the in-memory hot map, key -> value
    cacheSize,   \* Diskv.cacheSize
    mu,          \* Diskv.mu: the task holding the write lock
    files,       \* the directory: key -> content of the file completeFilename(key)
    task,        \* each task's operation in progress on the store
    res,         \* the store call that returned last, and what it returned
    erased,      \* keys whose last completed mutation is an Erase
    clock,       \* time.Now().Unix()
    issued,      \* the signed URL issued last
    signRes,     \* the signer call that returned last, and what it returned
    alignRes,    \* the last call of GenerateAlignedExpire and its result
    xform,       \* the last call of transformImage: source, options, result
    served,      \* an inbound request served with two tk parameters
    tcache,      \* Transport.Cache: key -> the bytes kept under it
    tclock,      \* the time, in seconds
    tclient,     \* the user of the Transport whose requests the run draws
    trip,        \* the RoundTrip that returned last, and what it returned
    coded,       \* the last call of Transform and DetectFormat on an image
    notMod,      \* the last response written by writeResponseToWriter
    flight,      \* Transport.modReq, and each RoundTrip and CancelRequest under way
    shut,        \* the server, its wait group, and each handler and main under way
    objs,        \* the object store, the origin cache, and the last S3ResourceProcess
    anim,        \* GifProcess: the frames, the canvas, and the loop's position
    acl,         \* the last call of validHost and validReferrer and its result
    pair         \* two normalized requests and their keys in the outer cache

optVars == <<optTrace>>
diskVars == <<cache, cacheSize, mu, files, task, res, erased>>

signVars == <<clock, issued, signRes>>
alignVars == <<alignRes>>
xformVars == <<xform>>
serveVars == <<served>>

cacheVars == <<tcache, tclock, tclient, trip>>
codecVars == <<coded>>
condVars == <<notMod>>
cancelVars == <<flight>>
shutVars == <<shut>>
objVars == <<objs>>
gifVars == <<anim>>
aclVars == <<acl>>
keyVars == <<pair>>

vars == <<optVars, diskVars, signVars, alignVars, xformVars, serveVars, cacheVars,
          codecVars, condVars, cancelVars, shutVars, objVars, gifVars, aclVars,
          keyVars>>

\* the parts of the state that a specification of another part leaves empty
CancelIdle == flight = <<>>

ShutIdle == shut = <<>>

ObjIdle == objs = <<>>

GifIdle == anim = <<>>

AclIdle == acl = <<>>

KeyIdle == pair = <<>>

None == "none"

(***************************************************************************)
(* Strings are sequences of one-character strings, so that the prefix,     *)
(* split and number conversions of the source are computed, not assumed.   *)
(***************************************************************************)
Digits == <<"0", "1", "2", "3", "4", "5", "6", "7", "8", "9">>

IsDigit(c) == \E d \in 1..10 : Digits[d] = c

DigitVal(c) == (CHOOSE d \in 1..10 : Digits[d] = c) - 1

AllDigits(s) == Len(s) > 0 /\ \A i \in 1..Len(s) : IsDigit(s[i])

RECURSIVE NatToStr(_)
NatToStr(n) ==
    IF n < 10 THEN <<Digits[n + 1]>>
    ELSE NatToStr(n \div 10) \o <<Digits[(n % 10) + 1]>>

RECURSIVE StrToNat(_)
StrToNat(s) ==
    IF s = <<>> THEN 0
    ELSE 10 * StrToNat(SubSeq(s, 1, Len(s) - 1)) + DigitVal(s[Len(s)])

\* fmt "%d"
Itoa(n) == IF n < 0 THEN <<"-">> \o NatToStr(-n) ELSE NatToStr(n)

\* strconv.Atoi: (value, err); the value is 0 on a syntax error
Atoi(s) ==
    LET signed == Len(s) > 0 /\ s[1] \in {"-", "+"}
        body   == IF signed THEN Tail(s) ELSE s
    IN  IF AllDigits(body)
        THEN [ok |-> TRUE,
              val |-> IF signed /\ s[1] = "-" THEN -StrToNat(body) ELSE StrToNat(body)]
        ELSE [ok |-> FALSE, val |-> 0]

\* index of the first occurrence of character c in s, 0 when absent
IndexOf(s, c) ==
    IF \E i \in 1..Len(s) : s[i] = c
    THEN CHOOSE i \in 1..Len(s) : s[i] = c /\ \A j \in 1..(i - 1) : s[j] # c
    ELSE 0

Contains(s, c) == IndexOf(s, c) # 0

HasPrefix(s, p) == Len(s) >= Len(p) /\ SubSeq(s, 1, Len(p)) = p

TrimPrefix(s, p) == IF HasPrefix(s, p) THEN SubSeq(s, Len(p) + 1, Len(s)) ELSE s

\* strings.SplitN(s, c, 2) on a string that contains c
SplitN2(s, c) ==
    LET i == IndexOf(s, c)
    IN  <<SubSeq(s, 1, i - 1), SubSeq(s, i + 1, Len(s))>>

\* strings.Split(s, c): the empty string splits into one empty token
RECURSIVE Split(_, _)
Split(s, c) ==
    IF ~Contains(s, c) THEN <<s>>
    ELSE <<SplitN2(s, c)[1]>> \o Split(SplitN2(s, c)[2], c)

RECURSIVE Join(_, _)
Join(toks, c) ==
    IF toks = <<>> THEN <<>>
    ELSE IF Len(toks) = 1 THEN toks[1]
    ELSE toks[1] \o <<c>> \o Join(Tail(toks), c)

(***************************************************************************)
(* float64 values of Width and Height.  The model keeps the values that    *)
(* are multiples of 0.5 (exact in binary floating point) and stores the    *)
(* integer 2*v: 1 is 0.5, 2 is 1.0, 200 is 100.0.                          *)
(***************************************************************************)
\* fmt "%v" of a float64
FormatFloat(v2) ==
    LET a    == IF v2 < 0 THEN -v2 ELSE v2
        sign == IF v2 < 0 THEN <<"-">> ELSE <<>>
        frac == IF a % 2 = 1 THEN <<".", "5">> ELSE <<>>
    IN  sign \o NatToStr(a \div 2) \o frac

\* strconv.ParseFloat(s, 64) on decimal notation: (value, err); 0 on a syntax
\* error.  Fraction digits other than .0 and .5 do not occur in the inputs.
ParseFloat(s) ==
    LET signed == Len(s) > 0 /\ s[1] \in {"-", "+"}
        body   == IF signed THEN Tail(s) ELSE s
        dot    == IndexOf(body, ".")
        ip     == IF dot = 0 THEN body ELSE SubSeq(body, 1, dot - 1)
        fp     == IF dot = 0 THEN <<>> ELSE SubSeq(body, dot + 1, Len(body))
        wellFormed ==
            /\ (ip = <<>> \/ AllDigits(ip))
            /\ (fp = <<>> \/ AllDigits(fp))
            /\ ~(ip = <<>> /\ fp = <<>>)
        mag    == 2 * StrToNat(ip) + (IF fp # <<>> /\ DigitVal(fp[1]) >= 5 THEN 1 ELSE 0)
    IN  IF wellFormed
        THEN [ok |-> TRUE, val |-> IF signed /\ s[1] = "-" THEN -mag ELSE mag]
        ELSE [ok |-> FALSE, val |-> 0]

(***************************************************************************)
(* Option DSL (imageproxy data.go)                                         *)
(***************************************************************************)
optFit == <<"f", "i", "t">>
optFlipVertical == <<"f", "v">>
optFlipHorizontal == <<"f", "h">>
optRotatePrefix == <<"r">>
optQualityPrefix == <<"q">>
optFormatPrefix == <<"f">>
optSizeDelimiter == "x"
optSizeDelimiter2 == "*"

ImageFormatPng == <<"p", "n", "g">>
ImageFormatWebp == <<"w", "e", "b", "p">>
ImageFormatJpeg == <<"j", "p", "e", "g">>
ImageFormatJpg == <<"j", "p", "g">>
ImageFormatGif == <<"g", "i", "f">>

\* the zero value of the Options struct
EmptyOptions ==
    [Width |-> 0, Height |-> 0, Fit |-> FALSE, Rotate |-> 0,
     FlipVertical |-> FALSE, FlipHorizontal |-> FALSE, Quality |-> 0,
     Format |-> <<>>]

\* Options.String without its final "0x0" rule
OptionsBuf(o) ==
    FormatFloat(o.Width) \o <<optSizeDelimiter>> \o FormatFloat(o.Height)
    \o (IF o.Fit THEN <<",">> \o optFit ELSE <<>>)
    \o (IF o.Rotate # 0 THEN <<",">> \o optRotatePrefix \o Itoa(o.Rotate) ELSE <<>>)
    \o (IF o.FlipVertical THEN <<",">> \o optFlipVertical ELSE <<>>)
    \o (IF o.FlipHorizontal THEN <<",">> \o optFlipHorizontal ELSE <<>>)
    \o (IF o.Quality # 0 THEN <<",">> \o optQualityPrefix \o Itoa(o.Quality) ELSE <<>>)
    \o (IF Len(o.Format) > 0 THEN <<",">> \o optFormatPrefix \o o.Format ELSE <<>>)

\* a slip in Options.String: the "0x0" rule is missing
OptionsString_KeepZero(o) == OptionsBuf(o)

OptionsString(o) ==
    IF OptionsBuf(o) = <<"0", "x", "0">> THEN <<>> ELSE OptionsBuf(o)

\* the size branches of ParseOptions: SplitN(opt, delim, 2), each non-empty
\* half parsed and assigned whatever ParseFloat returns
ApplySize(options, opt, delim) ==
    LET size == SplitN2(opt, delim)
        o1   == IF size[1] # <<>>
                THEN [options EXCEPT !.Width = ParseFloat(size[1]).val]
                ELSE options
    IN  IF size[2] # <<>>
        THEN [o1 EXCEPT !.Height = ParseFloat(size[2]).val]
        ELSE o1

\* a slip in ParseOptions: the default branch assigns without testing err
ApplyOption_NoErrCheck(options, opt) ==
    IF Len(opt) = 0 THEN options
    ELSE IF opt = optFit THEN [options EXCEPT !.Fit = TRUE]
    ELSE IF opt = optFlipVertical THEN [options EXCEPT !.FlipVertical = TRUE]
    ELSE IF opt = optFlipHorizontal THEN [options EXCEPT !.FlipHorizontal = TRUE]
    ELSE IF HasPrefix(opt, optRotatePrefix)
    THEN [options EXCEPT !.Rotate = Atoi(TrimPrefix(opt, optRotatePrefix)).val]
    ELSE IF HasPrefix(opt, optQualityPrefix)
    THEN [options EXCEPT !.Quality = Atoi(TrimPrefix(opt, optQualityPrefix)).val]
    ELSE IF HasPrefix(opt, optFormatPrefix)
    THEN [options EXCEPT !.Format = TrimPrefix(opt, optFormatPrefix)]
    ELSE IF Contains(opt, optSizeDelimiter) THEN ApplySize(options, opt, optSizeDelimiter)
    ELSE IF Contains(opt, optSizeDelimiter2) THEN ApplySize(options, opt, optSizeDelimiter2)
    ELSE [options EXCEPT !.Width = ParseFloat(opt).val, !.Height = ParseFloat(opt).val]

\* one iteration of the loop of ParseOptions: the switch, in its order
ApplyOption(options, opt) ==
    IF Len(opt) = 0 THEN options
    ELSE IF opt = optFit THEN [options EXCEPT !.Fit = TRUE]
    ELSE IF opt = optFlipVertical THEN [options EXCEPT !.FlipVertical = TRUE]
    ELSE IF opt = optFlipHorizontal THEN [options EXCEPT !.FlipHorizontal = TRUE]
    ELSE IF HasPrefix(opt, optRotatePrefix)
    THEN [options EXCEPT !.Rotate = Atoi(TrimPrefix(opt, optRotatePrefix)).val]
    ELSE IF HasPrefix(opt, optQualityPrefix)
    THEN [options EXCEPT !.Quality = Atoi(TrimPrefix(opt, optQualityPrefix)).val]
    ELSE IF HasPrefix(opt, optFormatPrefix)
    THEN [options EXCEPT !.Format = TrimPrefix(opt, optFormatPrefix)]
    ELSE IF Contains(opt, optSizeDelimiter) THEN ApplySize(options, opt, optSizeDelimiter)
    ELSE IF Contains(opt, optSizeDelimiter2) THEN ApplySize(options, opt, optSizeDelimiter2)
    ELSE IF ParseFloat(opt).ok
    THEN [options EXCEPT !.Width = ParseFloat(opt).val, !.Height = ParseFloat(opt).val]
    ELSE options

RECURSIVE ParseTokens(_, _)
ParseTokens(toks, options) ==
    IF toks = <<>> THEN options
    ELSE ParseTokens(Tail(toks), ApplyOption(options, Head(toks)))

ParseOptions(str, useWebp) ==
    LET options == ParseTokens(Split(str, ","), EmptyOptions)
    IN  IF useWebp /\ Len(options.Format) = 0
        THEN [options EXCEPT !.Format = ImageFormatWebp]
        ELSE options

(***************************************************************************)
(* Inputs of the option DSL                                                *)
(***************************************************************************)
MaxTokens == 3
MaxChain == 4

\* Width / Height values, as 2*v: -1, 0, 0.5, 1, 1.5, 100
SizeValues == {-2, 0, 1, 2, 3, 200}
RotateValues == {0, 90, -90}
QualityValues == {0, 70}
FormatValues ==
    {<<>>, ImageFormatJpeg, ImageFormatJpg, ImageFormatPng, ImageFormatGif,
     ImageFormatWebp}

OptionsValues ==
    [Width : SizeValues, Height : SizeValues, Fit : BOOLEAN, Rotate : RotateValues,
     FlipVertical : BOOLEAN, FlipHorizontal : BOOLEAN, Quality : QualityValues,
     Format : FormatValues]

\* tokens of TestParseOptions and TestNewRequest, and a few more
OptionTokens ==
    { <<>>, optFit, optFlipVertical, optFlipHorizontal,
      <<"r", "9", "0">>, <<"r">>, <<"q", "7", "0">>, <<"q", "z">>,
      <<"f", "p", "n", "g">>,
      <<"1", "x", "2">>, <<"x">>, <<"3">>, <<"0", ".", "5", "x">>,
      <<"2", "*", "3">>, <<"1", "x", "s">>, <<"m", "a", "x">>,
      <<"F", "O", "O">> }

TokenLists == UNION {[1..n -> OptionTokens] : n \in 1..MaxTokens}

OptionStrings == {Join(l, ",") : l \in TokenLists}

OptEl(o) == [kind |-> "opt", o |-> o, s |-> <<>>, webp |-> FALSE]
StrEl(s) == [kind |-> "str", o |-> EmptyOptions, s |-> s, webp |-> FALSE]

OptInit ==
    \/ \E o \in OptionsValues : optTrace = <<OptEl(o)>>
    \/ \E s \in OptionStrings : optTrace = <<StrEl(s)>>

OptIdle == optTrace = <<>>

\* o.String()
OptString ==
    /\ optTrace # <<>>
    /\ Len(optTrace) < MaxChain
    /\ optTrace[Len(optTrace)].kind = "opt"
    /\ optTrace' = Append(optTrace, StrEl(OptionsString(optTrace[Len(optTrace)].o)))

\* ParseOptions(s, useWebp)
OptParse ==
    /\ optTrace # <<>>
    /\ Len(optTrace) < MaxChain
    /\ optTrace[Len(optTrace)].kind = "str"
    /\ \E useWebp \in BOOLEAN :
          optTrace' = Append(optTrace,
              [OptEl(ParseOptions(optTrace[Len(optTrace)].s, useWebp))
                  EXCEPT !.webp = useWebp])

\* the chain, from position i on, used false for useWebp
NoWebpFrom(i) == \A j \in i..Len(optTrace) : ~optTrace[j].webp

\* C6: ParseOptions(o.String(), false) = o for every Options o; the zero
\* Options prints as the empty string; and for every option string s,
\* printing ParseOptions(s, false) and parsing the result again gives the
\* same Options.
OptionsRoundTrip ==
    /\ (Len(optTrace) >= 2 /\ optTrace[1].kind = "opt" /\ optTrace[1].o = EmptyOptions)
          => optTrace[2].s = <<>>
    /\ (Len(optTrace) >= 3 /\ optTrace[1].kind = "opt" /\ NoWebpFrom(1))
          => optTrace[3].o = optTrace[1].o
    /\ (Len(optTrace) >= 4 /\ optTrace[1].kind = "str" /\ NoWebpFrom(1))
          => optTrace[4].o = optTrace[2].o

\* an Options value with every field set has been printed and parsed back,
\* and an option string has been parsed, printed and parsed again
OptionsRoundTripWitness ==
    /\ Len(optTrace) >= 3
    /\ optTrace[1].kind = "opt"
    /\ optTrace[1].o.Width = 1 /\ optTrace[1].o.Height = 200
    /\ optTrace[1].o.Fit /\ optTrace[1].o.Rotate = 90
    /\ optTrace[1].o.FlipVertical /\ optTrace[1].o.FlipHorizontal
    /\ optTrace[1].o.Quality = 70 /\ optTrace[1].o.Format = ImageFormatPng
    /\ NoWebpFrom(1)
    /\ optTrace[2].s # <<>>

\* the tokens the option grammar names: fit, fv, fh, r<integer>, q<integer>,
\* f<word>, and a size (number, WxH, W*H, either side may be omitted)
IsSizeToken(opt, delim) ==
    /\ Contains(opt, delim)
    /\ SplitN2(opt, delim)[1] = <<>> \/ ParseFloat(SplitN2(opt, delim)[1]).ok
    /\ SplitN2(opt, delim)[2] = <<>> \/ ParseFloat(SplitN2(opt, delim)[2]).ok

RecognizedToken(opt) ==
    \/ opt \in {optFit, optFlipVertical, optFlipHorizontal}
    \/ HasPrefix(opt, optRotatePrefix) /\ Atoi(TrimPrefix(opt, optRotatePrefix)).ok
    \/ HasPrefix(opt, optQualityPrefix) /\ Atoi(TrimPrefix(opt, optQualityPrefix)).ok
    \/ HasPrefix(opt, optFormatPrefix) /\ Len(opt) > 1
    \/ ParseFloat(opt).ok
    \/ IsSizeToken(opt, optSizeDelimiter)
    \/ IsSizeToken(opt, optSizeDelimiter2)

\* C7 as claimed: empty and unrecognized tokens change no field: parsing a
\* token list gives the Options parsed from the list without the tokens that
\* are empty or are none of fit, fv, fh, r<integer>, q<integer>, f<word>, size.
UnrecognizedTokensIgnored ==
    (Len(optTrace) >= 2 /\ optTrace[1].kind = "str" /\ ~optTrace[2].webp)
        => optTrace[2].o =
              ParseOptions(
                  Join(SelectSeq(Split(optTrace[1].s, ","), RecognizedToken), ","),
                  FALSE)

\* a token that reaches the default branch of the switch and is no number
UnmatchedToken(opt) ==
    /\ opt \notin {optFit, optFlipVertical, optFlipHorizontal}
    /\ ~HasPrefix(opt, optRotatePrefix)
    /\ ~HasPrefix(opt, optQualityPrefix)
    /\ ~HasPrefix(opt, optFormatPrefix)
    /\ ~Contains(opt, optSizeDelimiter)
    /\ ~Contains(opt, optSizeDelimiter2)
    /\ ~ParseFloat(opt).ok

MatchedToken(opt) == Len(opt) > 0 /\ ~UnmatchedToken(opt)

\* C7 (amended): a token that is empty, or that is none of fit, fv, fh, does
\* not start with r, q or f, contains neither x nor * and is not a number,
\* changes no field: parsing a token list gives the Options parsed from the
\* list without those tokens.
UnmatchedTokensIgnored ==
    (Len(optTrace) >= 2 /\ optTrace[1].kind = "str" /\ ~optTrace[2].webp)
        => optTrace[2].o =
              ParseOptions(
                  Join(SelectSeq(Split(optTrace[1].s, ","), MatchedToken), ","),
                  FALSE)

\* "3,FOO,r90" has been parsed: the unmatched token sits between two that act
UnmatchedTokensWitness ==
    /\ Len(optTrace) >= 2
    /\ optTrace[1].kind = "str"
    /\ optTrace[1].s = <<"3", ",", "F", "O", "O", ",", "r", "9", "0">>
    /\ ~optTrace[2].webp
    /\ optTrace[2].o.Width = 6 /\ optTrace[2].o.Rotate = 90

(***************************************************************************)
(* diskv: the store behind diskcache.Cache.  Get is Diskv.Read, Set is     *)
(* Diskv.WriteStream, Delete is Diskv.Erase.  The sections that run under  *)
(* Diskv.mu are atomic steps; a siphon reads its file without the lock.    *)
(***************************************************************************)
DiskKeys == {"k1", "k2"}
DiskTasks == {"t1", "t2"}
DiskValues == {<<1>>, <<2, 2>>, <<3, 3, 3, 3>>}

\* Options.CacheSizeMax, in bytes, scaled to the values of the model
CacheSizeMax == 3
\* bytes handed out by one Read of the file
ReadChunk == 1

\* the calls of WriteStream(key, value): any task stores a value that fits
\* the hot map under any key, and one task stores a value longer than
\* CacheSizeMax
DiskWrites ==
    (DiskTasks \X DiskKeys \X {v \in DiskValues : Len(v) <= CacheSizeMax})
        \cup {<<"t1", "k1", v>> : v \in {x \in DiskValues : Len(x) > CacheSizeMax}}

\* an optional value: no value, or the one value v
Absent == <<>>

Some(v) == <<v>>

\* fd: Absent while the opened file is still the one linked under the key,
\* Some(content) once Erase has unlinked it (the handle keeps the content)
IdleTask ==
    [pc |-> "idle", key |-> None, off |-> 0, buf |-> <<>>, val |-> <<>>,
     fd |-> Absent, expect |-> Absent]

\* the last call that returned: who, what, and what it answered.  expect is
\* the value the caller's own preceding Set of the key stored, if no other
\* mutation of the key came in between; afterErase tells that the call began
\* after an Erase of the key and before the next WriteStream.  For a read
\* that ended in cacheWithLock: stored tells that the value was placed in
\* the hot map, held is d.cacheSize when the call began and freed the bytes
\* ensureCacheSpaceWithLock released.
NoRes ==
    [op |-> None, key |-> None, val |-> <<>>, ok |-> FALSE, expect |-> Absent,
     afterErase |-> FALSE, stored |-> FALSE, held |-> 0, freed |-> 0]

DiskInit ==
    /\ cache = [k \in DiskKeys |-> Absent]
    /\ cacheSize = 0
    /\ mu = None
    /\ files = [k \in DiskKeys |-> Absent]
    /\ task = [t \in DiskTasks |-> IdleTask]
    /\ res = NoRes
    /\ erased = [k \in DiskKeys |-> FALSE]

DiskIdle ==
    /\ cache = <<>> /\ cacheSize = 0 /\ mu = None /\ files = <<>>
    /\ task = <<>> /\ res = <<>> /\ erased = <<>>

CachedKeys(c) == {k \in DiskKeys : c[k] # Absent}

RECURSIVE SumLen(_, _)
SumLen(c, ks) ==
    IF ks = {} THEN 0
    ELSE LET k == CHOOSE x \in ks : TRUE IN Len(c[k][1]) + SumLen(c, ks \ {k})

\* uncacheWithLock / bustCacheWithLock
bustCacheWithLock(c, sz, key) ==
    IF c[key] # Absent
    THEN [cache |-> [c EXCEPT ![key] = Absent], cacheSize |-> sz - Len(c[key][1])]
    ELSE [cache |-> c, cacheSize |-> sz]

\* ensureCacheSpaceWithLock without the walk: nothing is dropped
EnsureOutcomes_NoEviction(c, sz, valueSize) ==
    {[cache |-> c, cacheSize |-> sz, panic |-> FALSE]}

\* ensureCacheSpaceWithLock: the map is walked in an arbitrary order and
\* entries are dropped until the value fits; the outcomes are the sets of
\* keys the walk may drop.  panic: the walk ended and the value still does
\* not fit.
EnsureOutcomes(c, sz, valueSize) ==
    LET safeAfter(E) == (sz - SumLen(c, E)) + valueSize <= CacheSizeMax
        stops(E) ==
            \/ E = {} /\ safeAfter({})
            \/ E # {} /\ safeAfter(E) /\ \E e \in E : ~safeAfter(E \ {e})
            \/ E = CachedKeys(c) /\ ~safeAfter(E)
    IN  { [cache |-> [k \in DiskKeys |-> IF k \in E THEN Absent ELSE c[k]],
           cacheSize |-> sz - SumLen(c, E),
           panic |-> ~safeAfter(E)] : E \in {X \in SUBSET CachedKeys(c) : stops(X)} }

\* cacheWithLock: the outcomes of publishing val under key
cacheWithLock(c, sz, key, val) ==
    IF Len(val) > CacheSizeMax
    THEN {[cache |-> c, cacheSize |-> sz, panic |-> FALSE, stored |-> FALSE,
           freed |-> 0]}
    ELSE { IF e.panic
           THEN [cache |-> e.cache, cacheSize |-> e.cacheSize, panic |-> TRUE,
                 stored |-> FALSE, freed |-> sz - e.cacheSize]
           ELSE [cache |-> [e.cache EXCEPT ![key] = Some(val)],
                 cacheSize |-> e.cacheSize + Len(val),
                 panic |-> FALSE, stored |-> TRUE, freed |-> sz - e.cacheSize]
           : e \in EnsureOutcomes(c, sz, Len(val)) }

\* an expectation of another task about key ends when key is mutated
Forget(tk, t, key) ==
    [u \in DiskTasks |->
        IF u # t /\ tk[u].key = key THEN [tk[u] EXCEPT !.expect = Absent] ELSE tk[u]]

\* os.Remove: the siphons that hold the file of key open keep its content
Unlink(tk, key, content) ==
    [u \in DiskTasks |->
        IF tk[u].pc = "reading" /\ tk[u].key = key /\ tk[u].fd = Absent
        THEN [tk[u] EXCEPT !.fd = Some(content)] ELSE tk[u]]

\* Read -> ReadStream, under the read lock: a hit in the hot map answers
\* from memory; otherwise the file is stat'ed and opened behind a siphon
ReadStream(t, key) ==
    /\ task[t].pc = "idle"
    /\ mu = None
    /\ LET exp == IF task[t].key = key THEN task[t].expect ELSE Absent
       IN  IF cache[key] # Absent
           THEN /\ res' = [op |-> "get", key |-> key, val |-> cache[key][1],
                           ok |-> TRUE, expect |-> exp, afterErase |-> erased[key],
                           stored |-> FALSE, held |-> 0, freed |-> 0]
                /\ task' = [task EXCEPT ![t] = IdleTask]
           ELSE IF files[key] = Absent
           THEN /\ res' = [op |-> "get", key |-> key, val |-> <<>>,
                           ok |-> FALSE, expect |-> exp, afterErase |-> erased[key],
                           stored |-> FALSE, held |-> 0, freed |-> 0]
                /\ task' = [task EXCEPT ![t] = IdleTask]
           ELSE /\ task' = [task EXCEPT ![t] =
                       [IdleTask EXCEPT !.pc = "reading", !.key = key, !.expect = exp]]
                /\ UNCHANGED res
    /\ UNCHANGED <<cache, cacheSize, mu, files, erased>>

\* siphon.Read: the next bytes of the file into the buffer, or EOF
siphonRead(t) ==
    /\ task[t].pc = "reading"
    /\ LET data == IF task[t].fd # Absent THEN task[t].fd[1] ELSE files[task[t].key][1]
           n    == IF Len(data) - task[t].off < ReadChunk
                   THEN Len(data) - task[t].off ELSE ReadChunk
       IN  IF n > 0
           THEN task' = [task EXCEPT
                    ![t].buf = task[t].buf \o SubSeq(data, task[t].off + 1, task[t].off + n),
                    ![t].off = task[t].off + n]
           ELSE task' = [task EXCEPT ![t].pc = "publish", ![t].fd = Absent, ![t].off = 0]
    /\ UNCHANGED <<cache, cacheSize, mu, files, res, erased>>

\* siphon.Read at EOF: cacheWithoutLock takes the write lock and publishes
\* the buffer; Read returns the buffer
cacheWithoutLock(t) ==
    /\ task[t].pc = "publish"
    /\ mu = None
    /\ \E out \in cacheWithLock(cache, cacheSize, task[t].key, task[t].buf) :
          /\ cache' = out.cache
          /\ cacheSize' = out.cacheSize
          /\ res' = [op |-> IF out.panic THEN "panic" ELSE "get", key |-> task[t].key,
                     val |-> task[t].buf, ok |-> ~out.panic,
                     expect |-> task[t].expect, afterErase |-> FALSE,
                     stored |-> out.stored, held |-> cacheSize, freed |-> out.freed]
    /\ task' = [task EXCEPT ![t] = IdleTask]
    /\ UNCHANGED <<mu, files, erased>>

\* WriteStream, first half: the write lock is taken and the file is opened
\* with O_CREATE | O_TRUNC
WriteStream(t, key, val) ==
    /\ task[t].pc = "idle"
    /\ mu = None
    /\ mu' = t
    /\ files' = [files EXCEPT ![key] = Some(<<>>)]
    /\ task' = [Forget(task, t, key) EXCEPT ![t] =
                   [IdleTask EXCEPT !.pc = "writing", !.key = key, !.val = val]]
    /\ erased' = [erased EXCEPT ![key] = FALSE]
    /\ UNCHANGED <<cache, cacheSize, res>>

\* WriteStream, second half: io.Copy, Sync, Close, bustCacheWithLock, Unlock
writeStreamWithLock(t) ==
    /\ task[t].pc = "writing"
    /\ mu = t
    /\ files' = [files EXCEPT ![task[t].key] = Some(task[t].val)]
    /\ LET b == bustCacheWithLock(cache, cacheSize, task[t].key)
       IN  cache' = b.cache /\ cacheSize' = b.cacheSize
    /\ mu' = None
    /\ res' = [op |-> "set", key |-> task[t].key, val |-> task[t].val, ok |-> TRUE,
               expect |-> Absent, afterErase |-> FALSE, stored |-> FALSE, held |-> 0,
               freed |-> 0]
    /\ task' = [task EXCEPT ![t] =
           [IdleTask EXCEPT !.key = task[t].key, !.expect = Some(task[t].val)]]
    /\ UNCHANGED erased

\* Erase, under the write lock: the hot-map entry is dropped, then the file
\* is removed (an absent file ends the call with the stat error)
Erase(t, key) ==
    /\ task[t].pc = "idle"
    /\ mu = None
    /\ LET b == bustCacheWithLock(cache, cacheSize, key)
       IN  cache' = b.cache /\ cacheSize' = b.cacheSize
    /\ files' = [files EXCEPT ![key] = Absent]
    /\ task' = [IF files[key] = Absent THEN Forget(task, t, key)
                ELSE Unlink(Forget(task, t, key), key, files[key][1])
                    EXCEPT ![t] = IdleTask]
    /\ res' = [op |-> "delete", key |-> key, val |-> <<>>, ok |-> files[key] # Absent,
               expect |-> Absent, afterErase |-> FALSE, stored |-> FALSE, held |-> 0,
               freed |-> 0]
    /\ erased' = [erased EXCEPT ![key] = TRUE]
    /\ UNCHANGED mu

\* C4: a Get(k) issued by a task right after its Set(k, v) returned, with no
\* other Set or Delete of k in between, returns (v, true), whatever other
\* tasks' reads of k are in flight.
SetThenGetReturnsValue ==
    (res.op = "get" /\ res.expect # Absent) => (res.ok /\ res.val = res.expect[1])

\* C5: after Delete(k) has returned and until the next Set(k), neither the
\* file nor the hot-map entry of k exists and a Get(k) returns not-found,
\* whatever reads of k were in flight when the Delete ran.
DeleteRemovesEntry ==
    /\ \A k \in DiskKeys : erased[k] => (files[k] = Absent /\ cache[k] = Absent)
    /\ (res.op = "get" /\ res.afterErase) => ~res.ok

\* C29: the bytes held in the hot map never exceed CacheSizeMax; a value
\* longer than CacheSizeMax is never placed in the hot map; and a value that
\* would overflow the budget is placed only after ensureCacheSpaceWithLock
\* has released enough bytes of other entries to make room for it.
HotMapWithinBudget ==
    /\ SumLen(cache, CachedKeys(cache)) <= CacheSizeMax
    /\ SumLen(cache, CachedKeys(cache)) <= cacheSize
    /\ cacheSize <= CacheSizeMax
    /\ \A k \in DiskKeys : cache[k] # Absent => Len(cache[k][1]) <= CacheSizeMax
    /\ (res.op = "get" /\ Len(res.val) > CacheSizeMax) => ~res.stored
    /\ (res.stored /\ res.held + Len(res.val) > CacheSizeMax)
          => (res.freed > 0 /\ res.held - res.freed + Len(res.val) <= CacheSizeMax)

\* a read has just placed its value in a hot map that had no room for it:
\* bytes were released, the value is in the map and the file of another
\* key is no longer cached
HotMapEvictionWitness ==
    /\ res.stored
    /\ res.held + Len(res.val) > CacheSizeMax
    /\ res.freed > 0
    /\ cache[res.key] = Some(res.val)
    /\ \E k \in DiskKeys \ {res.key} : files[k] # Absent /\ cache[k] = Absent

\* C33: a Get(k) that runs while a Set(k, v2) replaces a value v1 returns
\* all of v1 or all of v2: every value a Get returns, and every value in the
\* hot map, is a value that was handed whole to a Set, never an empty, a
\* truncated or a mixed byte sequence.
ReadsAreWholeValues ==
    /\ (res.op = "get" /\ res.ok) => res.val \in DiskValues
    /\ \A k \in DiskKeys : cache[k] # Absent => cache[k][1] \in DiskValues

\* C34: whenever no operation is in progress, every key in the hot map has
\* a file whose content is the value in the hot map (so the hot map holds
\* nothing that a completed Set replaced or a completed Delete removed, and
\* dropping an entry does not change what a Get returns).
HotMapMirrorsFiles ==
    (mu = None /\ \A t \in DiskTasks : task[t].pc = "idle")
        => \A k \in DiskKeys :
              cache[k] # Absent => (files[k] # Absent /\ files[k][1] = cache[k][1])

\* C35: cacheSize is the sum of the lengths of the values in the hot map,
\* also after two tasks that read the same key have both published it, and
\* no read of a value that is no longer than CacheSizeMax ends in a panic of
\* cacheWithLock or ensureCacheSpaceWithLock.
CacheSizeIsExact ==
    /\ cacheSize = SumLen(cache, CachedKeys(cache))
    /\ res.op = "panic" => Len(res.val) > CacheSizeMax

(***************************************************************************)
(* media_utils: signed URLs.  A 64-bit time T is kept as the pair          *)
(* <<T div 2^16, T mod 2^16>> (two's complement, so the first component of *)
(* a negative time is negative): the 32 bits that a token carries are then *)
(* the first component modulo 2^16 and the second component.               *)
(***************************************************************************)
HalfWord == 65536

Time(n) == <<n \div HalfWord, n % HalfWord>>

TimeLE(a, b) == a[1] < b[1] \/ (a[1] = b[1] /\ a[2] <= b[2])

\* the times that Val can turn back into a number
Representable(T) == T[1] >= 0 /\ T[1] < HalfWord \div 2

Val(T) == T[1] * HalfWord + T[2]

\* uint32(x) of an int64 x
Uint32(T) == <<T[1] % HalfWord, T[2]>>

\* int64(u) of a uint32 u
Int64(u) == <<u[1], u[2]>>

RECURSIVE XorBits(_, _, _)
XorBits(a, b, n) ==
    IF n = 0 THEN 0 ELSE ((a + b) % 2) + 2 * XorBits(a \div 2, b \div 2, n - 1)

\* a ^ b on uint32
Xor32(a, b) == <<XorBits(a[1], b[1], 16), XorBits(a[2], b[2], 16)>>

\* u % m for a uint32 u and 0 < m < 2^23
ModU32(u, m) == (((u[1] * 256) % m) * 256 + u[2]) % m

\* config.MagicNum (conf/aws.ini magic_num): one configured value
MagicNum == Time(305419896)

Base64Alphabet ==
    <<
      "A", "B", "C", "D", "E", "F", "G", "H", "I", "J", "K", "L", "M", "N", "O", "P",
      "Q", "R", "S", "T", "U", "V", "W", "X", "Y", "Z", "a", "b", "c", "d", "e", "f",
      "g", "h", "i", "j", "k", "l", "m", "n", "o", "p", "q", "r", "s", "t", "u", "v",
      "w", "x", "y", "z", "0", "1", "2", "3", "4", "5", "6", "7", "8", "9", "-", "_"
    >>

\* base64.RawURLEncoding.EncodeToString of the 4 big-endian bytes of u
EncodeToString4(u) ==
    LET h == u[1]
        l == u[2]
    IN  << Base64Alphabet[(h \div 1024) + 1],
           Base64Alphabet[((h \div 16) % 64) + 1],
           Base64Alphabet[((h % 16) * 4 + l \div 16384) + 1],
           Base64Alphabet[((l \div 256) % 64) + 1],
           Base64Alphabet[((l \div 4) % 64) + 1],
           Base64Alphabet[((l % 4) * 16) + 1] >>

\* SimpleTimeToStr: binary.BigEndian.PutUint32(expires, uint32(time ^ MagicNum))
SimpleTimeToStr(time) ==
    LET expires == Xor32(Uint32(time), Uint32(MagicNum))
    IN  [oe |-> EncodeToString4(expires), bytes |-> expires]

SimpleTimeByteToStr(bytes) == EncodeToString4(bytes)

\* SimpleToken: HMAC-SHA256 under config.SimpleKey of the bytes written to
\* the mac.  The digest is kept as the message it was computed from: equal
\* digests are equal messages (a collision-free HMAC).
SimpleToken(path, ts, oe) ==
    [hmac |-> IF Len(ts) > 0
              THEN path \o <<"?", "t", "s", "=">> \o ts \o <<"&", "o", "e", "=">> \o oe
              ELSE path \o <<"?", "o", "e", "=">> \o oe]

\* a token is the base64 text of a byte string: an optional digest followed
\* by 4 bytes; wellFormed tells whether the text decodes at all
RawURLEncode(sig, tail) == [wellFormed |-> TRUE, sig |-> sig, tail |-> tail]

MalformedToken == [wellFormed |-> FALSE, sig |-> Absent, tail |-> <<0, 0>>]

\* len(tokenBytes): sha256.Size bytes of digest, 4 bytes of expiry
TokenLen(token) == (IF token.sig = Absent THEN 0 ELSE 32) + 4

StripSlash(path) == IF HasPrefix(path, <<"/">>) THEN Tail(path) ELSE path

SimpleVerify_NoExpiry(path, ts, token, checkExpire, now) ==
    /\ token.wellFormed
    /\ TokenLen(token) >= 5
    /\ token.sig = Some(SimpleToken(StripSlash(path), ts, SimpleTimeByteToStr(token.tail)))

SimpleVerify(path, ts, token, checkExpire, now) ==
    IF ~token.wellFormed \/ TokenLen(token) < 5 THEN FALSE
    ELSE LET expireTime == Xor32(token.tail, Uint32(MagicNum))
         IN  IF checkExpire /\ ~TimeLE(now, Int64(expireTime)) THEN FALSE
             ELSE token.sig = Some(SimpleToken(StripSlash(path), ts,
                                               SimpleTimeByteToStr(token.tail)))

\* SimpleSignUrlWithTime: the URL "path?ts=..&tk=.." as its parts
SimpleSignUrlWithTime(path, ts, time) ==
    LET p  == StripSlash(path)
        t  == SimpleTimeToStr(time)
    IN  [path |-> p, ts |-> ts,
         tk |-> RawURLEncode(Some(SimpleToken(p, ts, t.oe)), t.bytes)]

\* crc32.ChecksumIEEE of the keys of the model
ChecksumIEEE(key) ==
    CASE key = <<"a">> -> <<59575, 48707>>
      [] key = <<"/", "a">> -> <<26992, 31580>>
      [] key = <<"b">> -> <<29118, 61433>>
      [] key = <<"0", "l">> -> <<55963, 2431>>
      [] key = <<"e", "3", "b", "d">> -> <<5765, 12160>>

SecondsPerDay == 3600 * 24

GenerateAlignedExpire_NoBump(key, expiresSeconds, now) ==
    LET L == IF expiresSeconds < SecondsPerDay THEN SecondsPerDay ELSE expiresSeconds
    IN  ((now + L - 1) \div L) * L + ModU32(ChecksumIEEE(key), L)

\* GenerateAlignedExpire at time.Now().Unix() = now >= 0
GenerateAlignedExpire(key, expiresSeconds, now) ==
    LET L == IF expiresSeconds < SecondsPerDay THEN SecondsPerDay ELSE expiresSeconds
        offset == ModU32(ChecksumIEEE(key), L)
        alignedExpire == ((now + L - 1) \div L) * L + offset
    IN  IF alignedExpire - now < L THEN alignedExpire + L ELSE alignedExpire

SimpleSignUrl(path, ts, relativeExpire, now) ==
    LET p == StripSlash(path)
    IN  SimpleSignUrlWithTime(p, ts, Time(GenerateAlignedExpire(p, relativeExpire, now)))

\* inputs of the signer
SignPaths == {<<"a">>, <<"/", "a">>, <<"/", "/", "a">>}
SignVersions == {<<>>, <<"7">>}
SignKeys == {<<"a">>, <<"/", "a">>, <<"b">>, <<"0", "l">>, <<"e", "3", "b", "d">>}
SignLifetimes == {0, 604800}
AlignLifetimes == {-5, 0, 3600, 86400, 86401, 604800}
\* wall-clock times: near the epoch, the present, and one past 2^32
SignClocks == {Time(10), Time(1700000000), Time(1700000005), <<HalfWord, 10>>}
\* wall-clock times around the epoch, around a day boundary, and the present
AlignClocks == {0, 1, 86399, 86400, 86401, 1700000000, 1700006400}
\* expiry times handed to SimpleSignUrlWithTime: -1, small, the present,
\* 2^32 + 5 and 2^32 + 1700000005
SignExpiries ==
    {<<-1, HalfWord - 1>>, Time(5), Time(1700000000),
     <<HalfWord, 5>>, <<HalfWord + 25939, 61701>>}

NoIssue ==
    [by |-> None, path |-> <<>>, ts |-> <<>>, e |-> Time(0), at |-> Time(0),
     url |-> [path |-> <<>>, ts |-> <<>>, tk |-> MalformedToken]]

NoSignRes ==
    [op |-> None, path |-> <<>>, ts |-> <<>>, tk |-> MalformedToken, ok |-> FALSE,
     at |-> Time(0)]

NoAlignRes == [op |-> None, key |-> <<>>, now |-> 0, lifetime |-> 0, e |-> 0]

SignInit ==
    /\ clock \in SignClocks
    /\ issued = NoIssue
    /\ signRes = NoSignRes

SignIdle == clock = <<>> /\ issued = <<>> /\ signRes = <<>>

\* time passes
Tick ==
    /\ \E c \in SignClocks : ~TimeLE(c, clock) /\ clock' = c
    /\ UNCHANGED <<issued, signRes>>

IssueWithTime(path, ts, e) ==
    /\ issued' = [by |-> "SimpleSignUrlWithTime", path |-> path, ts |-> ts, e |-> e,
                  at |-> clock, url |-> SimpleSignUrlWithTime(path, ts, e)]
    /\ signRes' = [NoSignRes EXCEPT !.op = "sign"]
    /\ UNCHANGED clock

Issue(path, ts, relativeExpire) ==
    /\ Representable(clock)
    /\ issued' = [by |-> "SimpleSignUrl", path |-> path, ts |-> ts,
                  e |-> Time(GenerateAlignedExpire(StripSlash(path), relativeExpire,
                                                   Val(clock))),
                  at |-> clock,
                  url |-> SimpleSignUrl(path, ts, relativeExpire, Val(clock))]
    /\ signRes' = [NoSignRes EXCEPT !.op = "sign"]
    /\ UNCHANGED clock

\* the tokens a caller may present once a URL was issued: the issued one,
\* one with its expiry bytes replaced, one cut down to the expiry bytes, and
\* text that is not base64
PresentedTokens ==
    {issued.url.tk,
     [issued.url.tk EXCEPT !.tail = SimpleTimeToStr(<<HalfWord - 1, HalfWord - 1>>).bytes],
     [issued.url.tk EXCEPT !.sig = Absent],
     MalformedToken}

Verify(path, ts, token) ==
    /\ issued.by # None
    /\ signRes' = [NoSignRes EXCEPT !.op = "verify", !.path = path, !.ts = ts,
                                    !.tk = token, !.at = clock,
                                    !.ok = SimpleVerify(path, ts, token, TRUE, clock)]
    /\ UNCHANGED <<clock, issued>>

\* paths and versions in which the text "?ts=" moves between the two
ForgePaths == {<<"a">>, <<"/", "a">>, <<"a", "?", "t", "s", "=", "1">>}
ForgeVersions == {<<>>, <<"2">>, <<"1", "?", "t", "s", "=", "2">>}
ForgeExpiries == {Time(1700000005)}

\* C39: with a collision-free HMAC, a token issued for (path, ts, expiry)
\* is accepted only for that path (with or without one leading '/'), that
\* ts and with its own expiry bytes.
TokenBindsPathAndVersion ==
    (signRes.op = "verify" /\ signRes.ok)
        => /\ StripSlash(signRes.path) = StripSlash(issued.path)
           /\ signRes.ts = issued.ts
           /\ signRes.tk = issued.url.tk

AlignInit == alignRes = NoAlignRes

AlignIdle == alignRes = <<>>

\* one call of GenerateAlignedExpire when the clock reads now
Align(key, expiresSeconds, now) ==
    alignRes' = [op |-> "align", key |-> key, now |-> now, lifetime |-> expiresSeconds,
                 e |-> GenerateAlignedExpire(key, expiresSeconds, now)]

\* the token presented is the issued one, for the issued version and for the
\* issued path with or without its leading '/'
VerifiesIssued ==
    /\ signRes.op = "verify"
    /\ signRes.tk = issued.url.tk
    /\ signRes.ts = issued.ts
    /\ StripSlash(signRes.path) = StripSlash(issued.path)

\* C8 as stated: for any expiry e, the token of SimpleSignUrlWithTime(path,
\* ts, e) is accepted by SimpleVerify exactly while the current time is at
\* most e, and a URL of SimpleSignUrl verifies at the time it is produced.
SignedTokenVerifiesUntilExpiry ==
    VerifiesIssued =>
        /\ issued.by = "SimpleSignUrlWithTime" => (signRes.ok <=> TimeLE(signRes.at, issued.e))
        /\ (issued.by = "SimpleSignUrl" /\ signRes.at = issued.at) => signRes.ok

\* the expiry fits the 4 bytes of the token
FitsUint32(T) == T[1] >= 0 /\ T[1] < HalfWord

\* C8, amended: for an expiry 0 <= e < 2^32 the token of
\* SimpleSignUrlWithTime(path, ts, e) is accepted by SimpleVerify exactly
\* while the current time is at most e, with or without the leading '/' of
\* path; a URL of SimpleSignUrl for a path that does not begin with "//",
\* whose aligned expiry is below 2^32, verifies at the time it is produced.
SignedTokenVerifiesWithin32Bits ==
    (VerifiesIssued /\ FitsUint32(issued.e)) =>
        /\ issued.by = "SimpleSignUrlWithTime" => (signRes.ok <=> TimeLE(signRes.at, issued.e))
        /\ (issued.by = "SimpleSignUrl" /\ signRes.at = issued.at
              /\ ~HasPrefix(issued.path, <<"/", "/">>)) => signRes.ok

\* a token signed for "/a" is accepted for "a" before its expiry, and
\* rejected after it
SignedTokenVerifiesWitness ==
    /\ VerifiesIssued /\ FitsUint32(issued.e)
    /\ issued.by = "SimpleSignUrlWithTime"
    /\ issued.path = <<"/", "a">> /\ signRes.path = <<"a">>
    /\ issued.e = Time(1700000000)
    /\ signRes.at = Time(1700000005) /\ ~signRes.ok

\* C9: with L = max(lifetime, 86400), GenerateAlignedExpire returns e with
\* e mod L = crc32(key) mod L and L <= e - now < 2L.
AlignedExpireInWindow ==
    alignRes.op = "align" =>
        LET L == IF alignRes.lifetime > 86400 THEN alignRes.lifetime ELSE 86400
        IN  /\ alignRes.e % L = ModU32(ChecksumIEEE(alignRes.key), L)
            /\ L <= alignRes.e - alignRes.now
            /\ alignRes.e - alignRes.now < 2 * L

\* the aligned expiry of a key whose offset is 0, asked for on a boundary:
\* the expiry is exactly one period away
AlignedExpireWitness ==
    /\ alignRes.op = "align"
    /\ alignRes.key = <<"e", "3", "b", "d">>
    /\ alignRes.lifetime = 3600
    /\ alignRes.now = 86400
    /\ alignRes.e = 2 * 86400

(***************************************************************************)
(* imageproxy: the size of a transformed image.  An image is its width and *)
(* height; Options.Width and Options.Height are kept as 2*v (see above).   *)
(***************************************************************************)
RECURSIVE GCD(_, _)
GCD(a, b) == IF b = 0 THEN a ELSE GCD(b, a % b)

RECURSIVE IsPowerOfTwo(_)
IsPowerOfTwo(n) == n = 1 \/ (n > 1 /\ n % 2 = 0 /\ IsPowerOfTwo(n \div 2))

\* float64(a) / float64(b) is the exact quotient: the reduced denominator is
\* a power of two
ExactQuotient(a, b) == IsPowerOfTwo(b \div GCD(a, b))

\* the first part of resizeParams: the absolute size asked for one side
AbsoluteSize(img, v2) ==
    IF 0 < v2 /\ v2 < 2 THEN (img * v2) \div 2
    ELSE IF v2 < 0 THEN 0
    ELSE v2 \div 2

\* resizeParams on inputs whose scale is an exact float64
resizeParams_NoScale(imgW, imgH, opt) ==
    LET w0 == AbsoluteSize(imgW, opt.Width)
        h0 == AbsoluteSize(imgH, opt.Height)
        w  == IF w0 > imgW THEN imgW ELSE w0
        h  == IF h0 > imgH THEN imgH ELSE h0
    IN  IF (w = imgW \/ w = 0) /\ (h = imgH \/ h = 0)
        THEN [w |-> 0, h |-> 0, resize |-> FALSE]
        ELSE [w |-> w, h |-> h, resize |-> TRUE]

\* resizeParams without the two clamps of its else branch
resizeParams_NoClamp(imgW, imgH, opt) ==
    LET w0 == AbsoluteSize(imgW, opt.Width)
        h0 == AbsoluteSize(imgH, opt.Height)
        scaled == w0 > 0 /\ h0 > 0 /\ ~opt.Fit /\ (w0 > imgW \/ h0 > imgH)
        byX == imgW * h0 <= imgH * w0
        w  == IF scaled THEN (IF byX THEN (w0 * imgW) \div w0 ELSE (w0 * imgH) \div h0)
              ELSE w0
        h  == IF scaled THEN (IF byX THEN (h0 * imgW) \div w0 ELSE (h0 * imgH) \div h0)
              ELSE h0
    IN  IF (w = imgW \/ w = 0) /\ (h = imgH \/ h = 0)
        THEN [w |-> 0, h |-> 0, resize |-> FALSE]
        ELSE [w |-> w, h |-> h, resize |-> TRUE]

resizeParams(imgW, imgH, opt) ==
    LET w0 == AbsoluteSize(imgW, opt.Width)
        h0 == AbsoluteSize(imgH, opt.Height)
        scaled == w0 > 0 /\ h0 > 0 /\ ~opt.Fit /\ (w0 > imgW \/ h0 > imgH)
        \* minScale = Min(imgW / w0, imgH / h0), as a fraction
        byX == imgW * h0 <= imgH * w0
        w  == IF scaled THEN (IF byX THEN (w0 * imgW) \div w0 ELSE (w0 * imgH) \div h0)
              ELSE IF w0 > imgW THEN imgW ELSE w0
        h  == IF scaled THEN (IF byX THEN (h0 * imgW) \div w0 ELSE (h0 * imgH) \div h0)
              ELSE IF h0 > imgH THEN imgH ELSE h0
    IN  IF (w = imgW \/ w = 0) /\ (h = imgH \/ h = 0)
        THEN [w |-> 0, h |-> 0, resize |-> FALSE]
        ELSE [w |-> w, h |-> h, resize |-> TRUE]

\* the inputs on which resizeParams computes its scale without rounding
ExactScale(imgW, imgH, opt) ==
    LET w0 == AbsoluteSize(imgW, opt.Width)
        h0 == AbsoluteSize(imgH, opt.Height)
    IN  (w0 > 0 /\ h0 > 0) => (ExactQuotient(imgW, w0) /\ ExactQuotient(imgH, h0))

\* floor(x + 0.5) of x = a / b, at least 1
RoundAtLeastOne(a, b) ==
    LET r == (2 * a + b) \div (2 * b) IN IF r < 1 THEN 1 ELSE r

\* imaging.Resize: a side given as 0 keeps the aspect ratio
imagingResize(srcW, srcH, w, h) ==
    IF w < 0 \/ h < 0 \/ (w = 0 /\ h = 0) THEN [W |-> 0, H |-> 0]
    ELSE IF w = 0 THEN [W |-> RoundAtLeastOne(h * srcW, srcH), H |-> h]
    ELSE IF h = 0 THEN [W |-> w, H |-> RoundAtLeastOne(w * srcH, srcW)]
    ELSE [W |-> w, H |-> h]

\* imaging.Fit: scaled down to fit the box, never up
imagingFit(srcW, srcH, maxW, maxH) ==
    IF maxW <= 0 \/ maxH <= 0 THEN [W |-> 0, H |-> 0]
    ELSE IF srcW <= maxW /\ srcH <= maxH THEN [W |-> srcW, H |-> srcH]
    ELSE IF srcW * maxH > srcH * maxW
    THEN imagingResize(srcW, srcH, maxW, (maxW * srcH) \div srcW)
    ELSE imagingResize(srcW, srcH, (maxH * srcW) \div srcH, maxH)

\* imaging.Thumbnail: scaled to fill the box and cropped to it
imagingThumbnail(srcW, srcH, w, h) ==
    IF w <= 0 \/ h <= 0 THEN [W |-> 0, H |-> 0] ELSE [W |-> w, H |-> h]

\* transformImage: the size of the result
transformImage(imgW, imgH, opt) ==
    LET r == resizeParams(imgW, imgH, opt)
        m == IF ~r.resize THEN [W |-> imgW, H |-> imgH]
             ELSE IF opt.Fit THEN imagingFit(imgW, imgH, r.w, r.h)
             ELSE IF r.w = 0 \/ r.h = 0 THEN imagingResize(imgW, imgH, r.w, r.h)
             ELSE imagingThumbnail(imgW, imgH, r.w, r.h)
    IN  IF opt.Rotate \in {90, 270} THEN [W |-> m.H, H |-> m.W] ELSE m

\* the corners of an image, as <<top left, top right, bottom left, bottom
\* right>>, and what the imaging library does to them
SourceCorners == <<"tl", "tr", "bl", "br">>

imagingFlipV(c) == <<c[3], c[4], c[1], c[2]>>

imagingFlipH(c) == <<c[2], c[1], c[4], c[3]>>

\* counter-clockwise
imagingRotate90(c) == <<c[2], c[4], c[1], c[3]>>

imagingRotate180(c) == <<c[4], c[3], c[2], c[1]>>

imagingRotate270(c) == <<c[3], c[1], c[4], c[2]>>

\* transformImage after the resize: the flips, then the rotation
transformImageCorners(c, opt) ==
    LET flipV(m) == IF opt.FlipVertical THEN imagingFlipV(m) ELSE m
        flipH(m) == IF opt.FlipHorizontal THEN imagingFlipH(m) ELSE m
        rotate(m) == IF opt.Rotate = 90 THEN imagingRotate90(m)
                     ELSE IF opt.Rotate = 180 THEN imagingRotate180(m)
                     ELSE IF opt.Rotate = 270 THEN imagingRotate270(m)
                     ELSE m
    IN  rotate(flipH(flipV(c)))

\* sides of the source images, and the sizes asked for (2*v: 1 is 0.5)
ImageSides == {1, 2, 3, 100, 200}
RequestedSizes == {-2, 0, 1, 2, 3, 4, 6, 200, 400, 800}
RequestedRotations == {0, 90, 180, 270}

\* a source image and the options of the request, not yet transformed
XformInit ==
    \E iw \in ImageSides, ih \in ImageSides, rw \in RequestedSizes, rh \in RequestedSizes,
       fit \in BOOLEAN, rot \in RequestedRotations, fv \in BOOLEAN, fh \in BOOLEAN :
        LET opt == [EmptyOptions EXCEPT !.Width = rw, !.Height = rh, !.Fit = fit,
                                        !.Rotate = rot, !.FlipVertical = fv,
                                        !.FlipHorizontal = fh]
        IN  /\ ExactScale(iw, ih, opt)
            /\ xform = [imgW |-> iw, imgH |-> ih, opt |-> opt, done |-> FALSE,
                        w |-> 0, h |-> 0, resize |-> FALSE, out |-> [W |-> 0, H |-> 0],
                        corners |-> SourceCorners]

XformIdle == xform = <<>>

TransformImage ==
    /\ ~xform.done
    /\ LET r == resizeParams(xform.imgW, xform.imgH, xform.opt)
       IN  xform' = [xform EXCEPT !.done = TRUE, !.w = r.w, !.h = r.h,
                                  !.resize = r.resize,
                                  !.out = transformImage(xform.imgW, xform.imgH, xform.opt),
                                  !.corners = transformImageCorners(SourceCorners, xform.opt)]

\* the request of C10: both sides asked for, neither below the source, no
\* fit, no rotation, no flip
AtLeastSource ==
    /\ xform.done
    /\ xform.opt.Width >= 2 * xform.imgW /\ xform.opt.Height >= 2 * xform.imgH
    /\ ~xform.opt.Fit /\ xform.opt.Rotate = 0
    /\ ~xform.opt.FlipVertical /\ ~xform.opt.FlipHorizontal

BoxExceedsSource ==
    /\ xform.done /\ ~xform.opt.Fit
    /\ AbsoluteSize(xform.imgW, xform.opt.Width) > 0
    /\ AbsoluteSize(xform.imgH, xform.opt.Height) > 0
    /\ \/ AbsoluteSize(xform.imgW, xform.opt.Width) > xform.imgW
       \/ AbsoluteSize(xform.imgH, xform.opt.Height) > xform.imgH

\* (W*s, H*s) truncated, s = min(IW/W, IH/H)
ScaledBox ==
    LET W  == AbsoluteSize(xform.imgW, xform.opt.Width)
        H  == AbsoluteSize(xform.imgH, xform.opt.Height)
        IW == xform.imgW
        IH == xform.imgH
    IN  IF W * IH >= H * IW
        THEN [w |-> IW, h |-> (H * IW) \div W]
        ELSE [w |-> (W * IH) \div H, h |-> IH]

\* the size resizeParams aims at: the source's when it asks for no resize
ResizeTarget ==
    IF xform.resize THEN [w |-> xform.w, h |-> xform.h]
    ELSE [w |-> xform.imgW, h |-> xform.imgH]

RotateThenFlip(c, opt) ==
    LET rotated == IF opt.Rotate = 90 THEN imagingRotate90(c)
                   ELSE IF opt.Rotate = 180 THEN imagingRotate180(c)
                   ELSE IF opt.Rotate = 270 THEN imagingRotate270(c)
                   ELSE c
        flippedV == IF opt.FlipVertical THEN imagingFlipV(rotated) ELSE rotated
    IN  IF opt.FlipHorizontal THEN imagingFlipH(flippedV) ELSE flippedV

\* C12 as stated: the image is resized, then rotated, then flipped, so a
\* flip acts on the rotated image.
FlipsAfterRotation ==
    xform.done => xform.corners = RotateThenFlip(SourceCorners, xform.opt)

(***************************************************************************)
(* imageproxy: from the inbound request to the normalized request, and the *)
(* access checks of the proxy.  A URL is the record of the fields of       *)
(* url.URL that the code reads.                                            *)
(***************************************************************************)
kCloudFrontPattern == <<"t", "o", "o", "l", "s", "/", "i", "m", "/">>

LowerLetters ==
    {"a", "b", "c", "d", "e", "f", "g", "h", "i", "j", "k", "l", "m",
     "n", "o", "p", "q", "r", "s", "t", "u", "v", "w", "x", "y", "z"}

\* strings.LastIndex for a one-character separator, 0 when absent
LastIndexOf(s, c) ==
    IF \E i \in 1..Len(s) : s[i] = c
    THEN CHOOSE i \in 1..Len(s) : s[i] = c /\ \A j \in (i + 1)..Len(s) : s[j] # c
    ELSE 0

HasSuffix(s, p) == Len(s) >= Len(p) /\ SubSeq(s, Len(s) - Len(p) + 1, Len(s)) = p

\* strings.Replace(s, old, new, -1) for one-character strings
RECURSIVE ReplaceAll(_, _, _)
ReplaceAll(s, old, new) ==
    IF s = <<>> THEN <<>>
    ELSE <<IF Head(s) = old THEN new ELSE Head(s)>> \o ReplaceAll(Tail(s), old, new)

\* the number of characters c at the front of s
RECURSIVE LeadingRun(_, _)
LeadingRun(s, c) ==
    IF s # <<>> /\ Head(s) = c THEN 1 + LeadingRun(Tail(s), c) ELSE 0

EmptyURL ==
    [Scheme |-> <<>>, Host |-> <<>>, Path |-> <<>>, RawQuery |-> <<>>, Fragment |-> <<>>]

\* reCleanedURL.ReplaceAllString(s, "$1://$2"): ^(https?):/+([^/])
CleanURL(s) ==
    LET scheme == IF HasPrefix(s, <<"h", "t", "t", "p", "s", ":">>) THEN <<"h", "t", "t", "p", "s">>
                  ELSE IF HasPrefix(s, <<"h", "t", "t", "p", ":">>) THEN <<"h", "t", "t", "p">> ELSE <<>>
        rest   == SubSeq(s, Len(scheme) + 2, Len(s))
        n      == LeadingRun(rest, "/")
    IN  IF scheme # <<>> /\ n >= 1 /\ Len(rest) > n
        THEN scheme \o <<":", "/", "/">> \o SubSeq(rest, n + 1, Len(rest))
        ELSE s

\* url.Parse's getscheme: letters, then digits and + - . too, up to a ':'
SchemeLen(s) ==
    LET stop == IF \E i \in 1..Len(s) : s[i] \notin LowerLetters \cup {"0", "1", "2", "3", "4", "5", "6", "7", "8", "9", "+", "-", "."}
                THEN CHOOSE i \in 1..Len(s) :
                        /\ s[i] \notin LowerLetters \cup {"0", "1", "2", "3", "4", "5", "6", "7", "8", "9", "+", "-", "."}
                        /\ \A j \in 1..(i - 1) :
                              s[j] \in LowerLetters \cup {"0", "1", "2", "3", "4", "5", "6", "7", "8", "9", "+", "-", "."}
                ELSE 0
    IN  IF stop > 1 /\ s[stop] = ":" /\ s[1] \in LowerLetters THEN stop - 1 ELSE 0

\* url.Parse on the strings of the model: fragment, scheme, query, then
\* "//authority" and path
urlParse(s) ==
    LET parseAuthority(scheme, rest, query, frag) ==
            LET auth  == HasPrefix(rest, <<"/", "/">>)
                after == IF auth THEN SubSeq(rest, 3, Len(rest)) ELSE rest
                splitHost(slash) ==
                    [Scheme |-> scheme,
                     Host |-> IF ~auth THEN <<>>
                              ELSE IF slash = 0 THEN after ELSE SubSeq(after, 1, slash - 1),
                     Path |-> IF ~auth THEN rest
                              ELSE IF slash = 0 THEN <<>> ELSE SubSeq(after, slash, Len(after)),
                     RawQuery |-> query,
                     Fragment |-> frag]
            IN  splitHost(IndexOf(after, "/"))
        splitQuery(scheme, rest0, frag) ==
            LET atQuery(qm) ==
                    parseAuthority(scheme,
                                   IF qm = 0 THEN rest0 ELSE SubSeq(rest0, 1, qm - 1),
                                   IF qm = 0 THEN <<>> ELSE SubSeq(rest0, qm + 1, Len(rest0)),
                                   frag)
            IN  atQuery(IndexOf(rest0, "?"))
        getscheme(noFrag, frag) ==
            LET atScheme(sl) ==
                    splitQuery(SubSeq(noFrag, 1, sl),
                               IF sl = 0 THEN noFrag ELSE SubSeq(noFrag, sl + 2, Len(noFrag)),
                               frag)
            IN  atScheme(SchemeLen(noFrag))
        splitFragment(hash) ==
            getscheme(IF hash = 0 THEN s ELSE SubSeq(s, 1, hash - 1),
                      IF hash = 0 THEN <<>> ELSE SubSeq(s, hash + 1, Len(s)))
    IN  splitFragment(IndexOf(s, "#"))

parseURL(s) == urlParse(CleanURL(s))

IsAbs(u) == u.Scheme # <<>>

\* URL.String on the characters of the model, none of which is escaped
URLString(u) ==
    (IF u.Scheme # <<>> THEN u.Scheme \o <<":">> ELSE <<>>)
    \o (IF (u.Scheme # <<>> \/ u.Host # <<>>) /\ (u.Host # <<>> \/ u.Path # <<>>)
        THEN <<"/", "/">> \o u.Host ELSE <<>>)
    \o (IF u.Path # <<>> /\ u.Path[1] # "/" /\ u.Host # <<>> THEN <<"/">> ELSE <<>>)
    \o u.Path
    \o (IF u.RawQuery # <<>> THEN <<"?">> \o u.RawQuery ELSE <<>>)
    \o (IF u.Fragment # <<>> THEN <<"#">> \o u.Fragment ELSE <<>>)

\* baseURL.ResolveReference(ref) for a base whose path is "/" and a
\* reference without dot segments
ResolveReference(base, ref) ==
    IF IsAbs(ref) THEN ref
    ELSE IF ref.Host # <<>> THEN [ref EXCEPT !.Scheme = base.Scheme]
    ELSE [ref EXCEPT !.Scheme = base.Scheme, !.Host = base.Host,
                     !.Path = IF ref.Path # <<>> /\ ref.Path[1] = "/" THEN ref.Path
                              ELSE <<"/">> \o ref.Path]

\* url.QueryEscape on letters, digits, '&' and ' '
RECURSIVE QueryEscape(_)
QueryEscape(s) ==
    IF s = <<>> THEN <<>>
    ELSE (IF Head(s) = "&" THEN <<"%", "2", "6">>
          ELSE IF Head(s) = " " THEN <<"+">>
          ELSE <<Head(s)>>) \o QueryEscape(Tail(s))

\* HasWebpSupport: the Accept header names image/webp
HasWebpSupport(r) == "image/webp" \in r.Accept

\* the regular expression ^ts\d+$
MatchesTs(seg) == HasPrefix(seg, <<"t", "s">>) /\ AllDigits(SubSeq(seg, 3, Len(seg)))

NoError == <<>>

\* the query of the inbound request as it was sent, without its tk
\* parameter: the parameters that are not ts, then ts
InboundRawQuery(r) ==
    r.others
    \o (IF r.others # <<>> /\ r.ts # <<>> THEN <<"&">> ELSE <<>>)
    \o (IF r.ts # <<>> THEN <<"t", "s", "=">> \o r.ts ELSE <<>>)

\* the query that replaces the one of the inbound request
normalizedQuery_KeepQuery(r, forceTs) == InboundRawQuery(r)

normalizedQuery_QueryFirst(r, forceTs) ==
    IF Len(r.ts) > 0 THEN <<"t", "s", "=">> \o QueryEscape(r.ts)
    ELSE IF Len(forceTs) > 0 THEN <<"t", "s", "=">> \o QueryEscape(forceTs)
    ELSE <<>>

\* the end of NewRequest: values.Get("ts") is r.ts, and no other value of
\* r.URL.Query() is read
normalizedQuery(r, forceTs) ==
    IF Len(forceTs) > 0 THEN <<"t", "s", "=">> \o QueryEscape(forceTs)
    ELSE IF Len(r.ts) > 0 THEN <<"t", "s", "=">> \o QueryEscape(r.ts)
    ELSE <<>>

\* NewRequest: (request, error); baseURL is Absent or Some(url)
NewRequest(r, baseURL) ==
    LET fail(msg) == [err |-> msg, URL |-> EmptyURL, Options |-> EmptyOptions]
        useWebp == HasWebpSupport(r)
        query(forceTs) == normalizedQuery(r, forceTs)
        checked(url1, opts, forceTs) ==
            IF ~IsAbs(url1) THEN fail("must provide absolute remote URL")
            ELSE IF url1.Scheme # <<"h", "t", "t", "p">> /\ url1.Scheme # <<"h", "t", "t", "p", "s">>
            THEN fail("remote URL must have http or https scheme")
            ELSE [err |-> "", URL |-> [url1 EXCEPT !.RawQuery = query(forceTs)],
                  Options |-> opts]
        resolved(url0, opts, forceTs) ==
            checked(IF baseURL # Absent THEN ResolveReference(baseURL[1], url0) ELSE url0,
                    opts, forceTs)
        parsed(path, whole, forceTs) ==
            IF IsAbs(whole)
            THEN resolved(whole,
                          IF useWebp THEN [EmptyOptions EXCEPT !.Format = ImageFormatWebp]
                          ELSE EmptyOptions,
                          forceTs)
            ELSE LET parts == IF IndexOf(path, "/") = 0 THEN <<path>> ELSE SplitN2(path, "/")
                 IN  IF Len(parts) # 2 THEN fail("too few path segments")
                     ELSE resolved(parseURL(parts[2]), ParseOptions(parts[1], useWebp),
                                   forceTs)
        stripped(path1) ==
            LET lastIdx == LastIndexOf(path1, "/")
                lastComponent == SubSeq(path1, lastIdx + 1, Len(path1))
                forced == lastIdx # 0 /\ MatchesTs(lastComponent)
                versioned(path, forceTs) == parsed(path, parseURL(path), forceTs)
            IN  versioned(IF forced THEN SubSeq(path1, 1, lastIdx - 1) ELSE path1,
                          IF forced THEN SubSeq(lastComponent, 3, Len(lastComponent))
                          ELSE <<>>)
    IN  IF ~HasPrefix(Tail(r.Path), kCloudFrontPattern) THEN fail("Invalid url")
        ELSE stripped(TrimPrefix(Tail(r.Path), kCloudFrontPattern))

\* Request.String: the options travel in the fragment
RequestString(req) == URLString([req.URL EXCEPT !.Fragment = OptionsString(req.Options)])

\* CacheKey of the request that Client.Get builds from the request string
CacheKey(str) == ReplaceAll(URLString(urlParse(str)), "#", "_")

FileContentType(format) ==
    IF format \in {ImageFormatJpeg, ImageFormatJpg} THEN "image/jpeg"
    ELSE IF format = ImageFormatGif THEN "image/gif"
    ELSE IF format = ImageFormatPng THEN "image/png"
    ELSE IF format = ImageFormatWebp THEN "image/webp"
    ELSE ""

validHost(hosts, u) ==
    \E i \in 1..Len(hosts) :
        \/ u.Host = hosts[i]
        \/ HasPrefix(hosts[i], <<"*", ".">>) /\ HasSuffix(u.Host, SubSeq(hosts[i], 3, Len(hosts[i])))

validReferrer(hosts, r) == validHost(hosts, urlParse(r.Referer))

\* validSignature: the path and the query of the original request
validSignature(r, now) ==
    IF r.tk = Absent THEN FALSE
    ELSE SimpleVerify(r.Path, r.ts, r.tk[1], TRUE, now)

allowed_RequireSignature(p, req, r, now) ==
    IF FileContentType(req.Options.Format) = "" /\ Len(req.Options.Format) > 0
    THEN [err |-> "Invalid file format", signOK |-> FALSE]
    ELSE IF Len(p.Referrers) > 0 /\ ~validReferrer(p.Referrers, r)
    THEN [err |-> "request does not contain an allowed referrer", signOK |-> FALSE]
    ELSE IF Len(p.Whitelist) > 0 /\ ~validHost(p.Whitelist, req.URL)
    THEN [err |-> "request host not allowed", signOK |-> FALSE]
    ELSE IF ~validSignature(r, now)
    THEN [err |-> "request does not contain a valid signature", signOK |-> FALSE]
    ELSE [err |-> "", signOK |-> TRUE]

\* Proxy.allowed without its checks
allowed_Open(p, req, r, now) == [err |-> "", signOK |-> validSignature(r, now)]

\* Proxy.allowed: (error, signOK)
allowed(p, req, r, now) ==
    IF FileContentType(req.Options.Format) = "" /\ Len(req.Options.Format) > 0
    THEN [err |-> "Invalid file format", signOK |-> FALSE]
    ELSE IF Len(p.Referrers) > 0 /\ ~validReferrer(p.Referrers, r)
    THEN [err |-> "request does not contain an allowed referrer", signOK |-> FALSE]
    ELSE IF Len(p.Whitelist) > 0 /\ ~validHost(p.Whitelist, req.URL)
    THEN [err |-> "request host not allowed", signOK |-> FALSE]
    ELSE [err |-> "", signOK |-> validSignature(r, now)]

\* serveImage up to the call of the client: 404 for a request that does not
\* normalize, 403 for one that is not allowed, otherwise the status is the
\* one of the response to Client.Get(req.String())
serveImage(p, r, now) ==
    LET answer(n, a) ==
            IF n.err # ""
            THEN [status |-> "404", str |-> <<>>, key |-> <<>>, err |-> n.err,
                  signOK |-> FALSE, req |-> n]
            ELSE LET get(str) ==
                         IF a.err # ""
                         THEN [status |-> "403", str |-> str, key |-> <<>>, err |-> a.err,
                               signOK |-> FALSE, req |-> n]
                         ELSE [status |-> "Client.Get", str |-> str, key |-> CacheKey(str),
                               err |-> "", signOK |-> a.signOK, req |-> n]
                 IN  get(RequestString(n))
        check(n) == answer(n, allowed(p, n, r, now))
    IN  check(NewRequest(r, p.DefaultBaseURL))

\* inbound requests: paths, version, the rest of the query, Accept and
\* Referer headers
RequestPaths ==
    {<<"/", "t", "o", "o", "l", "s", "/", "i", "m", "/", "1", "x", "2", "/", "a">>, <<"/", "t", "o", "o", "l", "s", "/", "i", "m", "/", "/", "h", "t", "t", "p", ":", "/", "/", "h", "/", "a">>, <<"/", "t", "o", "o", "l", "s", "/", "i", "m", "/", "h", "t", "t", "p", ":", "/", "/", "h", "/", "a">>, <<"/", "x", "/", "a">>,
     <<"/", "t", "o", "o", "l", "s", "/", "i", "m", "/", "f", "b", "m", "p", "/", "a">>, <<"/", "t", "o", "o", "l", "s", "/", "i", "m", "/", "1", "x", "2", "/", "a", "/", "t", "s", "1", "2">>, <<"/", "t", "o", "o", "l", "s", "/", "i", "m", "/", "a">>,
     <<"/", "t", "o", "o", "l", "s", "/", "i", "m", "/", "1", "x", "2", "/", "f", "t", "p", ":", "/", "/", "h", "/", "a">>, <<"/", "t", "o", "o", "l", "s", "/", "i", "m", "/", "r", "9", "0", "/", "h", "t", "t", "p", "s", ":", "/", "e", "/", "a">>}
RequestVersions == {<<>>, <<"7">>}
RequestOthers == {<<>>, <<"b", "a", "r">>}
RequestAccepts == {{}, {"image/webp"}}
RequestReferers == {<<>>, <<"h", "t", "t", "p", ":", "/", "/", "h", "/", "p">>}

\* configurations of the proxy
ProxyConfigs ==
    [DefaultBaseURL : {Absent, Some(urlParse(<<"h", "t", "t", "p", ":", "/", "/", "o", "/">>))},
     Whitelist : {<<>>, <<<<"h">>>>},
     Referrers : {<<>>, <<<<"h">>>>}]

\* the time of the requests, and the tk parameters tried with a request:
\* none, a valid one, an expired one, one signed for another version, and
\* text that is not a token
RequestNow == Time(1700000000)

TokenChoices(path, ts) ==
    {Absent,
     Some(SimpleSignUrlWithTime(path, ts, Time(1700000100)).tk),
     Some(SimpleSignUrlWithTime(path, ts, Time(1699999900)).tk),
     Some(SimpleSignUrlWithTime(path, <<"8">>, Time(1700000100)).tk),
     Some(MalformedToken)}

NoOutcome ==
    [status |-> "", str |-> <<>>, key |-> <<>>, err |-> "", signOK |-> FALSE,
     req |-> [err |-> "", URL |-> EmptyURL, Options |-> EmptyOptions]]

\* one inbound request, to be served once with tk = tkA and once with tk = tkB
ServeInit ==
    \E path \in RequestPaths, ts \in RequestVersions, others \in RequestOthers,
       acc \in RequestAccepts, ref \in RequestReferers, p \in ProxyConfigs :
        \E a \in TokenChoices(path, ts), b \in TokenChoices(path, ts) :
            served = [r |-> [Path |-> path, ts |-> ts, others |-> others,
                              Accept |-> acc, Referer |-> ref, tk |-> Absent],
                      p |-> p, tkA |-> a, tkB |-> b, done |-> FALSE,
                      outA |-> NoOutcome, outB |-> NoOutcome]

ServeIdle == served = <<>>

ServeImage ==
    /\ ~served.done
    /\ served' = [served EXCEPT
           !.done = TRUE,
           !.outA = serveImage(served.p, [served.r EXCEPT !.tk = served.tkA], RequestNow),
           !.outB = serveImage(served.p, [served.r EXCEPT !.tk = served.tkB], RequestNow)]

\* C3: two inbound requests that differ only in tk normalize to the same
\* request string, use the same cache key, pass or fail the same access
\* check and get the same status.
SignatureNeverInfluences ==
    served.done =>
        /\ served.outA.str = served.outB.str
        /\ served.outA.key = served.outB.key
        /\ served.outA.err = served.outB.err
        /\ served.outA.status = served.outB.status

\* a request served with a valid token and with an expired one: both reach
\* the client with the same request string
SignatureWitness ==
    /\ served.done
    /\ served.outA.signOK /\ ~served.outB.signOK
    /\ served.tkB # Absent
    /\ served.outA.status = "Client.Get" /\ served.outB.status = "Client.Get"
    /\ served.outA.key = <<"h", "t", "t", "p", ":", "/", "/", "o", "/", "a", "?", "t", "s", "=", "7", "_", "1", "x", "2">>

\* the digits of a trailing /ts<digits> segment of the inbound path, or <<>>
TrailingVersion(path) ==
    IF \E i \in 1..Len(path) :
           /\ path[i] = "/" /\ i + 3 <= Len(path)
           /\ SubSeq(path, i + 1, i + 2) = <<"t", "s">>
           /\ AllDigits(SubSeq(path, i + 3, Len(path)))
    THEN LET i == CHOOSE j \in 1..Len(path) :
                      /\ path[j] = "/" /\ j + 3 <= Len(path)
                      /\ SubSeq(path, j + 1, j + 2) = <<"t", "s">>
                      /\ AllDigits(SubSeq(path, j + 3, Len(path)))
         IN  SubSeq(path, i + 3, Len(path))
    ELSE <<>>

EmbedsAbsoluteURL(path) ==
    \E i \in 1..Len(path) :
        /\ SubSeq(path, 1, i) \in {<<"/">> \o kCloudFrontPattern,
                                     <<"/">> \o kCloudFrontPattern \o <<"/">>}
        /\ HasPrefix(SubSeq(path, i + 1, Len(path)), <<"h", "t", "t", "p", ":", "/", "/">>)

stale == 0

fresh == 1

transparent == 2

\* the Transport that NewProxy builds marks the responses it serves
MarkCachedResponses == TRUE

\* Cache-Control: max-age of the responses the inner transport builds
kMaxAge == 2592000

EmptyCC ==
    [noCache |-> FALSE, noStore |-> FALSE, onlyIfCached |-> FALSE,
     maxAge |-> Absent, minFresh |-> Absent, maxStale |-> Absent,
     staleIfError |-> Absent]

\* the headers named in a Vary header of the responses of the model
VaryNames == {"Accept"}

EmptyResponseHeader ==
    [Date |-> Absent, Expires |-> Absent, CacheControl |-> EmptyCC,
     Etag |-> "", LastModified |-> "", Vary |-> <<>>,
     XVaried |-> [n \in VaryNames |-> ""], XFromCache |-> ""]

EmptyRequestHeader ==
    [Accept |-> "", Range |-> "", Etag |-> "", LastModified |-> "",
     IfNoneMatch |-> "", IfModifiedSince |-> "", CacheControl |-> EmptyCC]

\* Header.Get: the value of a header, "" when the header is not there
HeaderGet(h, name) == IF name \in DOMAIN h THEN h[name] ELSE ""

\* time.ParseDuration(v + "s") for a directive value: "s" alone is an error
ParseDuration(v) ==
    IF v = <<>> THEN [err |-> TRUE, d |-> 0] ELSE [err |-> FALSE, d |-> v[1]]

\* the bytes kept under a key: the dump of a response, or bytes that do not
\* parse as a response
CorruptBytes == [corrupt |-> TRUE]

\* httputil.DumpResponse(resp, true): status line, headers and body
DumpResponse(resp) == [corrupt |-> FALSE, resp |-> resp]

\* the bodies that decode as an image
DecodableBodies == {<<"img1">>, <<"img2">>, <<"img404">>}

\* a response to HEAD, and one with status 304, has no body
NoBody(method, status) == method = "HEAD" \/ status = 304

\* http.ReadResponse(bytes, req)
ReadResponse(bytes, req) ==
    IF bytes.corrupt
    THEN [resp |-> Absent, err |-> TRUE]
    ELSE [resp |-> Some([bytes.resp EXCEPT
                            !.Body = IF NoBody(req.Method, bytes.resp.StatusCode)
                                     THEN <<>> ELSE @]),
          err |-> FALSE]

Get(c, key) == c[key]

Set(c, key, data) == [c EXCEPT ![key] = Some(data)]

Delete(c, key) == [c EXCEPT ![key] = Absent]

CachedResponse(c, req) ==
    LET cachedVal == Get(c, CacheKey(req.URL))
    IN  IF cachedVal = Absent
        THEN [resp |-> Absent, err |-> FALSE]
        ELSE ReadResponse(cachedVal[1], req)

Date(respHeaders) ==
    IF respHeaders.Date = Absent
    THEN [err |-> TRUE, date |-> 0]
    ELSE [err |-> FALSE, date |-> respHeaders.Date[1]]

varyMatches(cachedResp, req) ==
    \A i \in 1..Len(cachedResp.Header.Vary) :
        LET header == cachedResp.Header.Vary[i]
        IN  ~(header # "" /\
              HeaderGet(req.Header, header) # HeaderGet(cachedResp.Header.XVaried, header))

\* the comparison lifetime > currentAge inverted
getFreshness_Inverted(respHeaders, reqHeaders, now) ==
    LET respCacheControl == respHeaders.CacheControl
        reqCacheControl == reqHeaders.CacheControl
        d == Date(respHeaders)
        age0 == now - d.date
        respLife ==
            IF respCacheControl.maxAge # Absent
            THEN LET p == ParseDuration(respCacheControl.maxAge[1])
                 IN  IF p.err THEN 0 ELSE p.d
            ELSE IF respHeaders.Expires # Absent
            THEN respHeaders.Expires[1] - d.date
            ELSE 0
        lifetime ==
            IF reqCacheControl.maxAge # Absent
            THEN LET p == ParseDuration(reqCacheControl.maxAge[1])
                 IN  IF p.err THEN 0 ELSE p.d
            ELSE respLife
        age1 ==
            IF reqCacheControl.minFresh # Absent
               /\ ~ParseDuration(reqCacheControl.minFresh[1]).err
            THEN age0 + ParseDuration(reqCacheControl.minFresh[1]).d
            ELSE age0
        currentAge ==
            IF reqCacheControl.maxStale # Absent
               /\ ~ParseDuration(reqCacheControl.maxStale[1]).err
            THEN age1 - ParseDuration(reqCacheControl.maxStale[1]).d
            ELSE age1
    IN  IF reqCacheControl.noCache THEN transparent
        ELSE IF respCacheControl.noCache THEN stale
        ELSE IF reqCacheControl.onlyIfCached THEN fresh
        ELSE IF d.err THEN stale
        ELSE IF reqCacheControl.maxStale = Some(<<>>) THEN fresh
        ELSE IF currentAge > lifetime THEN fresh
        ELSE stale

getFreshness(respHeaders, reqHeaders, now) ==
    LET respCacheControl == respHeaders.CacheControl
        reqCacheControl == reqHeaders.CacheControl
        d == Date(respHeaders)
        age0 == now - d.date
        respLife ==
            IF respCacheControl.maxAge # Absent
            THEN LET p == ParseDuration(respCacheControl.maxAge[1])
                 IN  IF p.err THEN 0 ELSE p.d
            ELSE IF respHeaders.Expires # Absent
            THEN respHeaders.Expires[1] - d.date
            ELSE 0
        lifetime ==
            IF reqCacheControl.maxAge # Absent
            THEN LET p == ParseDuration(reqCacheControl.maxAge[1])
                 IN  IF p.err THEN 0 ELSE p.d
            ELSE respLife
        age1 ==
            IF reqCacheControl.minFresh # Absent
               /\ ~ParseDuration(reqCacheControl.minFresh[1]).err
            THEN age0 + ParseDuration(reqCacheControl.minFresh[1]).d
            ELSE age0
        currentAge ==
            IF reqCacheControl.maxStale # Absent
               /\ ~ParseDuration(reqCacheControl.maxStale[1]).err
            THEN age1 - ParseDuration(reqCacheControl.maxStale[1]).d
            ELSE age1
    IN  IF reqCacheControl.noCache THEN transparent
        ELSE IF respCacheControl.noCache THEN stale
        ELSE IF reqCacheControl.onlyIfCached THEN fresh
        ELSE IF d.err THEN stale
        ELSE IF reqCacheControl.maxStale = Some(<<>>) THEN fresh
        ELSE IF lifetime > currentAge THEN fresh
        ELSE stale

\* stale-if-error never honoured
canStaleOnError_Never(respHeaders, reqHeaders, now) == FALSE

canStaleOnError(respHeaders, reqHeaders, now) ==
    LET respSIE == respHeaders.CacheControl.staleIfError
        reqSIE == reqHeaders.CacheControl.staleIfError
        d == Date(respHeaders)
        life1 == IF respSIE # Absent THEN ParseDuration(respSIE[1]).d ELSE 0 - 1
        lifetime == IF reqSIE # Absent THEN ParseDuration(reqSIE[1]).d ELSE life1
    IN  IF respSIE = Some(<<>>) THEN TRUE
        ELSE IF reqSIE = Some(<<>>) THEN TRUE
        ELSE IF lifetime >= 0 THEN ~d.err /\ lifetime > now - d.date
        ELSE FALSE

canStore(reqCacheControl, respCacheControl) ==
    ~respCacheControl.noStore /\ ~reqCacheControl.noStore

newGatewayTimeoutResponse ==
    [StatusCode |-> 504, Body |-> <<>>, Header |-> EmptyResponseHeader]

\* the headers of the 304 response replace those of the cached response
\* (none of the headers of the model is hop-by-hop)
getEndToEndHeaders(cachedHeader, respHeader) ==
    [Date |-> IF respHeader.Date # Absent THEN respHeader.Date ELSE cachedHeader.Date,
     Expires |-> IF respHeader.Expires # Absent THEN respHeader.Expires
                 ELSE cachedHeader.Expires,
     CacheControl |-> IF respHeader.CacheControl # EmptyCC THEN respHeader.CacheControl
                      ELSE cachedHeader.CacheControl,
     Etag |-> IF respHeader.Etag # "" THEN respHeader.Etag ELSE cachedHeader.Etag,
     LastModified |-> IF respHeader.LastModified # "" THEN respHeader.LastModified
                      ELSE cachedHeader.LastModified,
     Vary |-> IF respHeader.Vary # <<>> THEN respHeader.Vary ELSE cachedHeader.Vary,
     XVaried |-> [n \in VaryNames |->
                     IF respHeader.XVaried[n] # "" THEN respHeader.XVaried[n]
                     ELSE cachedHeader.XVaried[n]],
     XFromCache |-> IF respHeader.XFromCache # "" THEN respHeader.XFromCache
                    ELSE cachedHeader.XFromCache]

\* the request handed on as it came
conditionalRequest_NoValidators(cachedResp, req) == req

\* the response left unmarked
markCachedResponse_Unmarked(cachedResp) == cachedResp

\* RoundTrip, the marking of the parsed cached response
markCachedResponse(cachedResp) ==
    IF MarkCachedResponses
    THEN [cachedResp EXCEPT !.Header.XFromCache = "1"]
    ELSE cachedResp

\* RoundTrip, the conditional clone of the request for a stale entry
conditionalRequest(cachedResp, req) ==
    LET etag == cachedResp.Header.Etag
        lastModified == cachedResp.Header.LastModified
        req1 == IF etag # "" /\ req.Header.Etag = ""
                THEN [req EXCEPT !.Header.IfNoneMatch = etag] ELSE req
    IN  IF lastModified # "" /\ req.Header.LastModified = ""
        THEN [req1 EXCEPT !.Header.IfModifiedSince = lastModified] ELSE req1

\* the entry of a request that is not cacheable left in place
invalidateKey_Keep(c, cacheKey, cacheable) == c

\* RoundTrip, the first step: a request that is not cacheable drops the key
invalidateKey(c, cacheKey, cacheable) ==
    IF cacheable THEN c ELSE Delete(c, cacheKey)

\* RoundTrip, the last step: keep the response under the key, or drop the key
storeResponse(c, cacheKey, cacheable, req, resp, from, sent) ==
    IF cacheable /\ canStore(req.Header.CacheControl, resp.Header.CacheControl)
    THEN LET varied ==
                 [n \in VaryNames |->
                     IF (\E i \in 1..Len(resp.Header.Vary) : resp.Header.Vary[i] = n)
                        /\ HeaderGet(req.Header, n) # ""
                     THEN HeaderGet(req.Header, n) ELSE resp.Header.XVaried[n]]
             kept == [resp EXCEPT !.Header.XVaried = varied]
         IN  [cache |-> Set(c, cacheKey, DumpResponse(kept)), resp |-> Some(kept),
              err |-> FALSE, from |-> from, sent |-> sent]
    ELSE [cache |-> Delete(c, cacheKey), resp |-> Some(resp), err |-> FALSE,
          from |-> from, sent |-> sent]

\* what Transform and DetectFormat make of the bytes of an origin: an error
\* for bytes that do not decode as an image, else the image the options
\* ask for
Transform(image, opt) ==
    IF image \notin DecodableBodies
    THEN [err |-> TRUE, image |-> <<>>]
    ELSE [err |-> FALSE, image |-> image \o opt]

\* ParseHeadersFromResponse: Last-Modified and Etag of the origin's response
ParseHeadersFromResponse(response) ==
    [LastModified |-> response.Header.LastModified, Etag |-> response.Header.Etag]

\* ImageDataToHttpResponse: date is time.Now() as Format(http.TimeFormat)
\* prints it, the wall clock of the local zone labelled GMT; Expires is a
\* calendar month later, which the max-age of the response overrides
ImageDataToHttpResponse(imageWithMeta, req, date) ==
    [StatusCode |-> 200,
     Body |-> IF NoBody(req.Method, 200) THEN <<>> ELSE imageWithMeta.Image,
     Header |-> [EmptyResponseHeader EXCEPT
                    !.Date = Some(date),
                    !.Expires = Some(date + kMaxAge),
                    !.LastModified = imageWithMeta.Headers.LastModified,
                    !.Etag = imageWithMeta.Headers.Etag,
                    !.CacheControl = [EmptyCC EXCEPT !.maxAge = Some(<<kMaxAge>>)],
                    !.Vary = <<"Accept">>]]

\* the request that http.Client.Get builds for a URL
ClientGet(u) == [Method |-> "GET", URL |-> u, Header |-> EmptyRequestHeader]

\* Transport.RoundTrip and the inner transport it calls, TransformingTransport.
\* env is what the surroundings do when they are asked: env.origin is the
\* answer of the origin server, an error or a response, env.zone the offset
\* of the local zone.  The result names the response that is returned
\* (from: the cached one, the one of the inner transport, the 504 built
\* here, or none) and the request handed to the inner transport (sent).
\* what the inner transport answered: an error, or a status
InnerAnswer(out) ==
    Some([err |-> out.err, StatusCode |-> IF out.err THEN 0 ELSE out.resp.StatusCode])

\* the result r of RoundTrip, with the answer of the inner transport
Returned(r, got) ==
    [cache |-> r.cache, resp |-> r.resp, err |-> r.err, from |-> r.from,
     sent |-> r.sent, got |-> got]

RECURSIVE RoundTrip(_, _, _, _)
TransformingTransport(c, req, env, now) ==
    LET fetched(u) ==
            IF u.Fragment = <<>>
            THEN IF env.origin.err
                 THEN [cache |-> c, err |-> TRUE, resp |-> newGatewayTimeoutResponse]
                 ELSE [cache |-> c, err |-> FALSE,
                       resp |-> [env.origin.resp EXCEPT
                                    !.Body = IF NoBody(req.Method, env.origin.resp.StatusCode)
                                            THEN <<>> ELSE @]]
            ELSE LET transformed(response) ==
                         LET t == Transform(response.resp[1].Body, u.Fragment)
                         IN  IF response.err \/ t.err
                             THEN [cache |-> response.cache, err |-> TRUE,
                                   resp |-> newGatewayTimeoutResponse]
                             ELSE [cache |-> response.cache, err |-> FALSE,
                                   resp |-> ImageDataToHttpResponse(
                                                [Headers |-> ParseHeadersFromResponse(
                                                                 response.resp[1]),
                                                 Image |-> t.image],
                                                req, now + env.zone)]
                 IN  transformed(RoundTrip(c, ClientGet(URLString([u EXCEPT !.Fragment = <<>>])),
                                           env, now))
    IN  fetched(urlParse(req.URL))

RoundTrip(c, req, env, now) ==
    LET cacheable == req.Method \in {"GET", "HEAD"} /\ req.Header.Range = ""
        keyed(cacheKey) ==
            LET c1 == invalidateKey(c, cacheKey, cacheable)
                \* no usable entry: the 504 of only-if-cached, or the inner transport
                missed ==
                    IF req.Header.CacheControl.onlyIfCached
                    THEN Returned(storeResponse(c1, cacheKey, cacheable, req,
                                                newGatewayTimeoutResponse, "local", Absent),
                                  Absent)
                    ELSE LET passed(out) ==
                                 IF out.err
                                 THEN [cache |-> out.cache, resp |-> Absent, err |-> TRUE,
                                       from |-> "none", sent |-> Some(req),
                                       got |-> InnerAnswer(out)]
                                 ELSE Returned(storeResponse(out.cache, cacheKey, cacheable,
                                                             req, out.resp, "transport",
                                                             Some(req)),
                                               InnerAnswer(out))
                         IN  passed(TransformingTransport(c1, req, env, now))
                \* the answer of the inner transport to req2, with an entry at hand
                answered(cachedResp, req2, out) ==
                    IF ~out.err /\ req2.Method = "GET" /\ out.resp.StatusCode = 304
                    THEN Returned(storeResponse(out.cache, cacheKey, cacheable, req2,
                                      [cachedResp EXCEPT
                                          !.StatusCode = 200,
                                          !.Header = getEndToEndHeaders(cachedResp.Header,
                                                                        out.resp.Header)],
                                      "cache", Some(req2)),
                                  InnerAnswer(out))
                    ELSE IF (out.err \/ out.resp.StatusCode >= 500) /\ req2.Method = "GET"
                            /\ canStaleOnError(cachedResp.Header, req2.Header, now)
                    THEN [cache |-> out.cache,
                          resp |-> Some([cachedResp EXCEPT !.StatusCode = 200]),
                          err |-> FALSE, from |-> "cache", sent |-> Some(req2),
                          got |-> InnerAnswer(out)]
                    ELSE IF out.err
                    THEN [cache |-> Delete(out.cache, cacheKey), resp |-> Absent,
                          err |-> TRUE, from |-> "none", sent |-> Some(req2),
                          got |-> InnerAnswer(out)]
                    ELSE Returned(storeResponse(
                                      IF out.resp.StatusCode # 200
                                      THEN Delete(out.cache, cacheKey) ELSE out.cache,
                                      cacheKey, cacheable, req2, out.resp, "transport",
                                      Some(req2)),
                                  InnerAnswer(out))
                found(cachedResp, matches, freshness) ==
                    IF matches /\ freshness = fresh
                    THEN [cache |-> c1, resp |-> Some(cachedResp), err |-> FALSE,
                          from |-> "cache", sent |-> Absent, got |-> Absent]
                    ELSE LET send(req2) ==
                                 answered(cachedResp, req2,
                                          TransformingTransport(c1, req2, env, now))
                         IN  send(IF matches /\ freshness = stale
                                  THEN conditionalRequest(cachedResp, req) ELSE req)
                marked(cachedResp) ==
                    found(cachedResp, varyMatches(cachedResp, req),
                          getFreshness(cachedResp.Header, req.Header, now))
                looked(cr) ==
                    IF cacheable /\ cr.resp # Absent /\ ~cr.err
                    THEN marked(markCachedResponse(cr.resp[1]))
                    ELSE missed
            IN  looked(IF cacheable THEN CachedResponse(c, req)
                       ELSE [resp |-> Absent, err |-> FALSE])
    IN  keyed(CacheKey(req.URL))

\* the URL of an origin, and the same URL with options
OriginURL == <<"h", "t", "t", "p", ":", "/", "/", "o", "/", "a">>

TransformedURL == <<"h", "t", "t", "p", ":", "/", "/", "o", "/", "a", "#", "1", "x", "2">>

CacheKeys == {CacheKey(OriginURL), CacheKey(TransformedURL)}

RequestHeaders ==
    {EmptyRequestHeader,
     [EmptyRequestHeader EXCEPT !.Accept = "image/webp"],
     [EmptyRequestHeader EXCEPT !.Range = "bytes=0-9"],
     [EmptyRequestHeader EXCEPT !.CacheControl.noCache = TRUE],
     [EmptyRequestHeader EXCEPT !.CacheControl.onlyIfCached = TRUE],
     [EmptyRequestHeader EXCEPT !.CacheControl.noStore = TRUE],
     [EmptyRequestHeader EXCEPT !.CacheControl.staleIfError = Some(<<>>)]}

\* the users of the Transport: the proxy, whose serveImage and whose inner
\* transport call Client.Get on a URL, and a user that sends the methods
\* and the headers the Transport looks at
CacheClients == {"proxy", "any"}

\* the headers of a user agent that also gives stale-if-error a window and
\* sends an Etag header of its own
AgentHeaders ==
    RequestHeaders
    \cup {[EmptyRequestHeader EXCEPT !.CacheControl.staleIfError = Some(<<1>>)],
          [EmptyRequestHeader EXCEPT !.Etag = "e0", !.LastModified = "lm0"]}

ClientRequests(client) ==
    IF client = "proxy"
    THEN {ClientGet(OriginURL), ClientGet(TransformedURL)}
    ELSE {[Method |-> "GET", URL |-> OriginURL, Header |-> h] :
             h \in IF client = "agent" THEN AgentHeaders ELSE RequestHeaders}
         \cup {[Method |-> m, URL |-> OriginURL, Header |-> EmptyRequestHeader] :
                  m \in {"HEAD", "POST"}}

\* what an origin server answers at the time now
OriginResponses(now) ==
    {[StatusCode |-> 200, Body |-> <<"img1">>,
      Header |-> [EmptyResponseHeader EXCEPT
                     !.Date = Some(now), !.Etag = "e1",
                     !.CacheControl = [EmptyCC EXCEPT !.maxAge = Some(<<1>>)]]],
     [StatusCode |-> 200, Body |-> <<"img2">>,
      Header |-> [EmptyResponseHeader EXCEPT
                     !.LastModified = "lm1", !.Vary = <<"Accept">>,
                     !.CacheControl = [EmptyCC EXCEPT !.staleIfError = Some(<<>>)]]],
     [StatusCode |-> 200, Body |-> <<"text">>,
      Header |-> [EmptyResponseHeader EXCEPT
                     !.Date = Some(now), !.XFromCache = "1",
                     !.CacheControl = [EmptyCC EXCEPT !.noStore = TRUE]]],
     [StatusCode |-> 304, Body |-> <<>>,
      Header |-> [EmptyResponseHeader EXCEPT
                     !.Date = Some(now),
                     !.CacheControl = [EmptyCC EXCEPT !.maxAge = Some(<<1>>)]]],
     [StatusCode |-> 404, Body |-> <<"img404">>,
      Header |-> [EmptyResponseHeader EXCEPT !.Date = Some(now)]],
     [StatusCode |-> 500, Body |-> <<"text">>,
      Header |-> [EmptyResponseHeader EXCEPT !.Date = Some(now)]]}

OriginOutcomes(now) ==
    {[err |-> TRUE, resp |-> newGatewayTimeoutResponse]}
    \cup {[err |-> FALSE, resp |-> r] : r \in OriginResponses(now)}

\* what an origin answers to an agent: also a response with no-cache, and
\* one with a window for stale-if-error
AgentOutcomes(now) ==
    OriginOutcomes(now)
    \cup {[err |-> FALSE,
           resp |-> [StatusCode |-> 200, Body |-> <<"img1">>,
                     Header |-> [EmptyResponseHeader EXCEPT
                                    !.Date = Some(now), !.Etag = "e2",
                                    !.CacheControl = [EmptyCC EXCEPT
                                                         !.noCache = TRUE,
                                                         !.maxAge = Some(<<1>>)]]]],
          [err |-> FALSE,
           resp |-> [StatusCode |-> 200, Body |-> <<"img2">>,
                     Header |-> [EmptyResponseHeader EXCEPT
                                    !.Date = Some(now), !.LastModified = "lm2",
                                    !.CacheControl = [EmptyCC EXCEPT
                                                         !.staleIfError = Some(<<2>>)]]]]}

\* the times of the model, and the offsets of the local zone from UTC
CacheClocks == {0, 1, kMaxAge + 50400}

ZoneOffsets == {0 - 43200, 50400}

\* the zone is read only where ImageDataToHttpResponse builds a response
ZonesOf(req) == IF urlParse(req.URL).Fragment = <<>> THEN {0} ELSE ZoneOffsets

NoTrip ==
    [done |-> FALSE, req |-> ClientGet(<<>>), now |-> 0, cached |-> Absent,
     resp |-> Absent, err |-> FALSE, from |-> "none", invoked |-> FALSE,
     changed |-> FALSE, sent |-> Absent, got |-> Absent, before |-> Absent]

CacheInit ==
    /\ tcache = [k \in CacheKeys |-> Absent]
    /\ tclock = 0
    /\ tclient \in CacheClients
    /\ trip = NoTrip

CacheIdle == tcache = <<>> /\ tclock = 0 /\ tclient = "" /\ trip = <<>>

CacheTick ==
    /\ \E t \in CacheClocks : t > tclock /\ tclock' = t
    /\ UNCHANGED <<tcache, tclient, trip>>

\* the bytes under a key are damaged where they are kept
CacheCorrupt ==
    /\ \E k \in CacheKeys :
          /\ tcache[k] # Absent /\ tcache[k] # Some(CorruptBytes)
          /\ tcache' = [tcache EXCEPT ![k] = Some(CorruptBytes)]
    /\ UNCHANGED <<tclock, tclient, trip>>

\* the caller has taken the result of the RoundTrip
CacheReturn ==
    /\ trip.done
    /\ trip' = NoTrip
    /\ UNCHANGED <<tcache, tclock, tclient>>

\* one RoundTrip of the outer cache, with the answer the origin gives if it
\* is asked and the zone the inner transport formats its Date in
CacheRoundTrip(req, origin, zone) ==
    \E r \in {RoundTrip(tcache, req, [origin |-> origin, zone |-> zone], tclock)} :
        /\ tcache' = r.cache
        /\ trip' = [done |-> TRUE, req |-> req, now |-> tclock,
                    cached |-> CachedResponse(tcache, req).resp,
                    resp |-> r.resp, err |-> r.err, from |-> r.from,
                    invoked |-> r.sent # Absent,
                    changed |-> r.cache # tcache, sent |-> r.sent,
                    got |-> r.got,
                    before |-> Get(tcache, CacheKey(req.URL))]
        /\ UNCHANGED <<tclock, tclient>>

\* a GET without Range whose entry exists, matches Vary and is fresh
FreshHit ==
    /\ trip.done
    /\ trip.req.Method = "GET" /\ trip.req.Header.Range = ""
    /\ trip.cached # Absent
    /\ varyMatches(trip.cached[1], trip.req)
    /\ getFreshness(trip.cached[1].Header, trip.req.Header, trip.now) = fresh

\* the answer is the cached response with X-From-Cache: 1, the inner
\* transport was not called and the cache is as it was
ServedFromCache(t, before, after) ==
    /\ t.from = "cache" /\ ~t.err
    /\ t.cached # Absent
    /\ t.resp = Some([t.cached[1] EXCEPT !.Header.XFromCache = "1"])
    /\ ~t.invoked
    /\ before = after

\* a request for a URL with options, without headers, that the inner
\* transport has just answered
TransformedOK(t) ==
    /\ t.done /\ ~t.err /\ t.from = "transport"
    /\ t.req.Method = "GET" /\ t.req.Header = EmptyRequestHeader
    /\ urlParse(t.req.URL).Fragment # <<>>

\* C1: a GET without Range whose entry exists, matches Vary and is fresh is
\* answered with the cached response carrying X-From-Cache: 1, without a
\* call of the inner transport and without a change of the cache; and a
\* transformed request that succeeded and is repeated at once is answered
\* that way.
FreshHitServedFromCache ==
    /\ [](FreshHit => (ServedFromCache(trip, 0, 0) /\ ~trip.changed))
    /\ [][(TransformedOK(trip) /\ trip.now = tclock /\ tclock' = tclock
           /\ trip'.req = trip.req)
          => ServedFromCache(trip', tcache, tcache')]_vars

\* the repeated request for a transformed image, answered from the cache
FreshHitWitness ==
    /\ FreshHit
    /\ ServedFromCache(trip, 0, 0) /\ ~trip.changed
    /\ urlParse(trip.req.URL).Fragment # <<>>
    /\ trip.cached[1].Header.Date = Some(trip.now + 50400)
    /\ trip.cached[1].Body = <<"img1", "1", "x", "2">>

\* C2 as stated: the response carries X-From-Cache: 1 if and only if its
\* body came from the cache and the inner transport was not called.
XFromCacheIffNoTransport ==
    (trip.done /\ trip.resp # Absent) =>
        (trip.resp[1].Header.XFromCache = "1"
            <=> (trip.from = "cache" /\ ~trip.invoked))

\* C2: the response carries X-From-Cache: 1 whenever it is the cached
\* response, also when the inner transport was called for it (304 merge,
\* stale-if-error); the 504 built for only-if-cached and the response the
\* inner transport builds for a URL with options do not carry it.
XFromCacheIffCachedResponse ==
    (trip.done /\ trip.resp # Absent) =>
        /\ trip.from = "cache" => trip.resp[1].Header.XFromCache = "1"
        /\ (trip.from = "local"
            \/ (trip.from = "transport" /\ urlParse(trip.req.URL).Fragment # <<>>))
           => trip.resp[1].Header.XFromCache = ""

\* a stale entry revalidated with 304: the cached body is returned, marked,
\* after a call of the inner transport
XFromCacheWitness ==
    /\ trip.done /\ trip.resp # Absent
    /\ trip.from = "cache" /\ trip.invoked
    /\ trip.sent # Absent /\ trip.sent[1].Header.IfNoneMatch = "e1"
    /\ trip.resp[1].StatusCode = 200 /\ trip.resp[1].Body = <<"img1">>
    /\ trip.resp[1].Header.XFromCache = "1"

\* serveImage after Client.Get, for a client that sends no validators: 404
\* for an error, else the status and the body of the response
ClientAnswer(t) ==
    IF t.err THEN [status |-> 404, body |-> <<>>]
    ELSE [status |-> t.resp[1].StatusCode, body |-> t.resp[1].Body]

\* C14 as stated: a resource that is no image is answered with 404 and its
\* content never reaches the client, whatever the form of the request: the
\* proxy never answers 200 with a body that does not decode as an image.
NonImageAnswered404 ==
    (tclient = "proxy" /\ trip.done) =>
        (ClientAnswer(trip).status = 200 => ClientAnswer(trip).body # <<"text">>)

\* the body of the origin's 404 response, or an image made from it
FromNotFound(body) == body # <<>> /\ body[1] = "img404"

\* C16 as stated: when the origin answers 404 to the fetch for a request
\* with options, the proxy answers 404, never 200, even if the body of the
\* 404 decodes as an image, and no cache entry holds that body.
NotFoundPropagated ==
    (tclient = "proxy" /\ trip.done /\ trip.req.URL = TransformedURL) =>
        /\ FromNotFound(ClientAnswer(trip).body) => ClientAnswer(trip).status = 404
        /\ \A k \in CacheKeys :
              (tcache[k] # Absent /\ ~tcache[k][1].corrupt)
                  => ~FromNotFound(tcache[k][1].resp.Body)

\* C19 as stated: an entry is written only for a GET or HEAD without Range,
\* from a 2xx response of the inner transport, when neither side carries
\* no-store: the cache never holds a 404, a 5xx or the 504 built for
\* only-if-cached, and holds nothing under the key of another request.
OnlySuccessStored ==
    trip.done =>
        /\ \A k \in CacheKeys :
              (tcache[k] # Absent /\ ~tcache[k][1].corrupt) =>
                  /\ tcache[k][1].resp.StatusCode \in 200..299
                  /\ ~tcache[k][1].resp.Header.CacheControl.noStore
        /\ (trip.req.Method \notin {"GET", "HEAD"} \/ trip.req.Header.Range # ""
            \/ trip.req.Header.CacheControl.noStore)
               => tcache[CacheKey(trip.req.URL)] = Absent

\* C20 as stated: after a RoundTrip in which the inner transport answered
\* with a status of 500 or more and the stale copy was not served, the
\* cache holds no entry under the key of the request.
ServerErrorLeavesNoEntry ==
    (trip.done /\ ~trip.err /\ trip.from = "transport"
       /\ trip.resp[1].StatusCode >= 500)
        => tcache[CacheKey(trip.req.URL)] = Absent

\* the request may be answered from the cache: GET or HEAD without Range
Cacheable(req) == req.Method \in {"GET", "HEAD"} /\ req.Header.Range = ""

\* C21 as stated: an entry whose recorded X-Varied value differs from the
\* request's value of a header named in its Vary is treated as a miss, and
\* the cached response is never returned to that request, whatever the
\* inner transport answers.
VaryMismatchIsMiss ==
    (trip.done /\ Cacheable(trip.req) /\ trip.cached # Absent
       /\ ~varyMatches(trip.cached[1], trip.req))
        => trip.from # "cache"

\* a GET whose entry matches Vary, is stale and has a validator
StaleWithValidator ==
    /\ trip.done
    /\ trip.req.Method = "GET" /\ trip.req.Header.Range = ""
    /\ trip.cached # Absent
    /\ varyMatches(trip.cached[1], trip.req)
    /\ getFreshness(trip.cached[1].Header, trip.req.Header, trip.now) = stale
    /\ (trip.cached[1].Header.Etag # "" \/ trip.cached[1].Header.LastModified # "")

Answered304 == trip.got = Some([err |-> FALSE, StatusCode |-> 304])

\* the cached response with status 200 and the Date and Cache-Control of
\* the 304 of the model in place of its own
MergedResponse(resp) ==
    /\ resp.StatusCode = 200
    /\ resp.Body = trip.cached[1].Body
    /\ resp.Header.Etag = trip.cached[1].Header.Etag
    /\ resp.Header.LastModified = trip.cached[1].Header.LastModified
    /\ resp.Header.Date = Some(trip.now)
    /\ resp.Header.CacheControl = [EmptyCC EXCEPT !.maxAge = Some(<<1>>)]

\* C22 as stated: for a stale entry with a validator the inner transport
\* gets the request with If-None-Match and If-Modified-Since set from the
\* cached headers; after a 304 the caller receives the cached body with
\* status 200 and the headers of the 304 merged in, and the cache holds
\* that response.
RevalidationMergesAndStores ==
    StaleWithValidator =>
        /\ trip.sent =
              Some([trip.req EXCEPT
                       !.Header.IfNoneMatch = trip.cached[1].Header.Etag,
                       !.Header.IfModifiedSince = trip.cached[1].Header.LastModified])
        /\ Answered304 =>
              /\ ~trip.err /\ MergedResponse(trip.resp[1])
              /\ tcache[CacheKey(trip.req.URL)] = Some(DumpResponse(trip.resp[1]))

\* C22: for a stale entry with a validator the inner transport gets the
\* request with If-None-Match set from the cached ETag unless the caller
\* sent an Etag header, and If-Modified-Since from the cached Last-Modified
\* unless the caller sent a Last-Modified header; after a 304 the caller
\* receives the cached body with status 200 and the headers of the 304
\* merged in; the cache then holds that response, or nothing under the key
\* when the request or the merged response carries no-store.
RevalidationMerges ==
    StaleWithValidator =>
        /\ trip.sent =
              Some([trip.req EXCEPT
                       !.Header.IfNoneMatch =
                           IF trip.req.Header.Etag = ""
                           THEN trip.cached[1].Header.Etag ELSE @,
                       !.Header.IfModifiedSince =
                           IF trip.req.Header.LastModified = ""
                           THEN trip.cached[1].Header.LastModified ELSE @])
        /\ Answered304 =>
              /\ ~trip.err /\ MergedResponse(trip.resp[1])
              /\ tcache[CacheKey(trip.req.URL)] =
                     IF trip.req.Header.CacheControl.noStore
                        \/ trip.resp[1].Header.CacheControl.noStore
                     THEN Absent ELSE Some(DumpResponse(trip.resp[1]))

\* the entry img1 with ETag e1, stale at time 1, revalidated with
\* If-None-Match: e1 and answered 304
RevalidationMergesWitness ==
    /\ StaleWithValidator /\ Answered304
    /\ trip.req.Header = EmptyRequestHeader
    /\ trip.sent # Absent /\ trip.sent[1].Header.IfNoneMatch = "e1"
    /\ trip.cached[1].Header.Date = Some(0) /\ trip.now = 1
    /\ trip.resp[1].Body = <<"img1">> /\ trip.resp[1].Header.Date = Some(1)
    /\ tcache[CacheKey(trip.req.URL)] = Some(DumpResponse(trip.resp[1]))

\* a GET whose entry matches Vary and is stale, and whose revalidation ended
\* in an error of the inner transport or in a status of 500 or more
RevalidationFailed ==
    /\ trip.done
    /\ trip.req.Method = "GET" /\ trip.req.Header.Range = ""
    /\ trip.cached # Absent
    /\ varyMatches(trip.cached[1], trip.req)
    /\ getFreshness(trip.cached[1].Header, trip.req.Header, trip.now) = stale
    /\ trip.got # Absent
    /\ (trip.got[1].err \/ trip.got[1].StatusCode >= 500)

\* a stale-if-error directive d with a window longer than the age of the entry
WindowCovers(d) ==
    /\ d # Absent /\ d # Some(<<>>)
    /\ trip.cached[1].Header.Date # Absent
    /\ d[1][1] > trip.now - trip.cached[1].Header.Date[1]

\* the cached response is returned with status 200 and the entry is as it was
CachedServedOnError ==
    /\ ~trip.err /\ trip.from = "cache"
    /\ trip.resp = Some([trip.cached[1] EXCEPT !.StatusCode = 200,
                                                !.Header.XFromCache = "1"])
    /\ ~trip.changed

\* an error of the inner transport is returned and the key is empty
ErrorReturnedAndDeleted ==
    trip.got[1].err => (trip.err /\ tcache[CacheKey(trip.req.URL)] = Absent)

OnlyIfCachedNeverInvokes ==
    (trip.done /\ trip.req.Header.CacheControl.onlyIfCached) =>
        /\ ~trip.invoked
        /\ IF trip.cached # Absent
           THEN trip.from = "cache" /\ ~trip.err
                /\ trip.resp[1].Body = trip.cached[1].Body
           ELSE ~trip.err /\ trip.resp[1].StatusCode = 504

\* C25: a request whose method is neither GET nor HEAD, or that carries a
\* Range header, is not answered from the cache, and once its RoundTrip
\* has returned, with a response or with an error, the cache holds no
\* entry under its key.
BypassInvalidates ==
    (trip.done /\ ~Cacheable(trip.req)) =>
        /\ trip.from # "cache"
        /\ trip.invoked /\ trip.sent = Some(trip.req)
        /\ tcache[CacheKey(trip.req.URL)] = Absent

\* a request with a Range header for a key that held a response, failed by
\* the inner transport: the key is empty
BypassInvalidatesWitness ==
    /\ trip.done /\ ~Cacheable(trip.req)
    /\ trip.req.Header.Range # ""
    /\ trip.cached # Absent /\ trip.cached[1].Body = <<"img1">>
    /\ trip.err
    /\ tcache[CacheKey(trip.req.URL)] = Absent

\* C26 as stated: when the bytes under the key of a request do not parse as
\* a response the request is handled as a miss, the inner transport getting
\* the request as it came (or, with only-if-cached, the caller a 504), and
\* once the RoundTrip has returned the damaged bytes are gone, also when
\* the inner transport failed.
CorruptEntryRemoved ==
    (trip.done /\ trip.before = Some(CorruptBytes)) =>
        /\ trip.from # "cache"
        /\ IF trip.req.Header.CacheControl.onlyIfCached /\ Cacheable(trip.req)
           THEN ~trip.invoked /\ trip.resp[1].StatusCode = 504
           ELSE trip.sent = Some(trip.req)
        /\ tcache[CacheKey(trip.req.URL)] # Some(CorruptBytes)

\* C37: a GET never gets from the cache a response that was stored while a
\* HEAD was served.  Every origin of the model sends a body with a 200, and
\* the response to a HEAD has none: the 200 a GET is answered from the
\* cache carries a body.
GetNeverServedHeadEntry ==
    (/\ trip.done /\ ~trip.err
     /\ trip.req.Method = "GET"
     /\ trip.from = "cache"
     /\ trip.resp[1].StatusCode = 200)
        => trip.resp[1].Body # <<>>

(***************************************************************************)
(* imageproxy: the format of a transformed image.  The bytes of an image   *)
(* are the record of the format image.Decode finds in them (<<>> for bytes *)
(* that are no image), of whether all their frames decode, and of what     *)
(* they hold: the source, or what an encoder wrote.                        *)
(***************************************************************************)
defaultQuality == 80

\* image.Decode(bytes.NewReader(img)): the format of the first frame
imageDecode(img) == [err |-> img.format = <<>>, format |-> img.format]

\* Options.transform: the options hold a geometric operation
optionsTransform(opt) ==
    opt.Width # 0 \/ opt.Height # 0 \/ opt.Rotate # 0 \/ opt.FlipHorizontal
    \/ opt.FlipVertical

\* what an encoder writes: geometric says that transformImage was applied
EncodedBytes(format, geometric, quality) ==
    [format |-> format, frames |-> "ok", data |-> <<"encoded", geometric, quality>>]

\* GifProcess with a transform function: gif.DecodeAll, each frame
\* transformed, gif.EncodeAll
GifProcess(img, geometric) ==
    IF img.frames # "ok"
    THEN [bytes |-> Absent, format |-> <<>>, err |-> TRUE]
    ELSE [bytes |-> Some(EncodedBytes(ImageFormatGif, geometric, 0)),
          format |-> ImageFormatGif, err |-> FALSE]

\* the switch on the format that Transform and DetectFormat share
EncodeAs(format, img, opt, geometric) ==
    LET quality == IF opt.Quality = 0 THEN defaultQuality ELSE opt.Quality
    IN  IF format = ImageFormatGif THEN GifProcess(img, geometric)
        ELSE IF format = ImageFormatWebp
        THEN [bytes |-> Some(EncodedBytes(ImageFormatWebp, geometric, quality)),
              format |-> ImageFormatWebp, err |-> FALSE]
        ELSE IF format \in {ImageFormatJpg, ImageFormatJpeg}
        THEN [bytes |-> Some(EncodedBytes(ImageFormatJpeg, geometric, quality)),
              format |-> ImageFormatJpeg, err |-> FALSE]
        ELSE IF format = ImageFormatPng
        THEN [bytes |-> Some(EncodedBytes(ImageFormatPng, geometric, 0)),
              format |-> ImageFormatPng, err |-> FALSE]
        ELSE [bytes |-> Absent, format |-> <<>>, err |-> TRUE]

\* DetectFormat: (bytes, format, error); no bytes when the source is kept
DetectFormat(img, opt) ==
    LET decoded(d) ==
            IF d.err THEN [bytes |-> Absent, format |-> <<>>, err |-> TRUE]
            ELSE IF opt.Format = <<>> \/ d.format = opt.Format
                    \/ d.format = ImageFormatGif
            THEN [bytes |-> Absent, format |-> d.format, err |-> FALSE]
            ELSE EncodeAs(opt.Format, img, opt, FALSE)
    IN  decoded(imageDecode(img))

\* Transform with the format of a GIF source not kept
TransformFormat_ForceFormat(img, opt) ==
    LET decoded(d) ==
            IF d.err THEN [bytes |-> Absent, format |-> <<>>, err |-> TRUE]
            ELSE IF ~optionsTransform(opt)
                    /\ (opt.Format = <<>> \/ opt.Format = d.format)
            THEN [bytes |-> Some(img), format |-> d.format, err |-> FALSE]
            ELSE EncodeAs(IF Len(opt.Format) > 0 THEN opt.Format ELSE d.format,
                          img, opt, optionsTransform(opt))
    IN  decoded(imageDecode(img))

\* Transform: (bytes, format, error)
TransformFormat(img, opt) ==
    LET decoded(d) ==
            IF d.err THEN [bytes |-> Absent, format |-> <<>>, err |-> TRUE]
            ELSE IF ~optionsTransform(opt)
                    /\ (opt.Format = <<>> \/ opt.Format = d.format
                        \/ ImageFormatGif = d.format)
            THEN [bytes |-> Some(img), format |-> d.format, err |-> FALSE]
            ELSE EncodeAs(IF Len(opt.Format) > 0 /\ d.format # ImageFormatGif
                          THEN opt.Format ELSE d.format,
                          img, opt, optionsTransform(opt))
    IN  decoded(imageDecode(img))

\* the sources: images of each format, a GIF whose first frame decodes and
\* whose later frames do not, and bytes that are no image
SourceImages ==
    {[format |-> f, frames |-> "ok", data |-> <<"source">>] :
        f \in {ImageFormatGif, ImageFormatJpeg, ImageFormatPng, ImageFormatWebp, <<>>}}
    \cup {[format |-> ImageFormatGif, frames |-> "broken", data |-> <<"source">>]}

\* the formats asked for: none, the five the proxy knows, and one it does not
CodecFormats ==
    {<<>>, ImageFormatGif, ImageFormatPng, ImageFormatJpeg, ImageFormatJpg,
     ImageFormatWebp, <<"b", "m", "p">>}

CodecOptions ==
    {[EmptyOptions EXCEPT !.Format = f, !.Width = w, !.Rotate = r, !.Quality = q,
                          !.FlipHorizontal = fh] :
        f \in CodecFormats, w \in {0, 400}, r \in {0, 90}, q \in {0, 70},
        fh \in BOOLEAN}

NoCoded == [bytes |-> Absent, format |-> <<>>, err |-> FALSE]

CodecInit ==
    \E img \in SourceImages, opt \in CodecOptions :
        coded = [img |-> img, opt |-> opt, done |-> FALSE,
                 transformed |-> NoCoded, detected |-> NoCoded]

CodecIdle == coded = <<>>

\* Transform and DetectFormat, each called once on the image
CodecTransform ==
    /\ ~coded.done
    /\ coded' = [coded EXCEPT !.done = TRUE,
                              !.transformed = TransformFormat(coded.img, coded.opt),
                              !.detected = DetectFormat(coded.img, coded.opt)]

\* transform of the transport keeps the source where DetectFormat returns
\* no bytes
DetectedImage ==
    IF coded.detected.bytes # Absent THEN coded.detected.bytes[1] ELSE coded.img

\* C13: for a source that decodes as GIF, Transform and DetectFormat return
\* the format gif whatever the options ask for, and without a geometric
\* operation the image is the source, byte for byte.
GifStaysGif ==
    (coded.done /\ coded.img.format = ImageFormatGif /\ coded.img.frames = "ok") =>
        /\ ~coded.transformed.err /\ coded.transformed.format = ImageFormatGif
        /\ ~coded.detected.err /\ coded.detected.format = ImageFormatGif
        /\ ~optionsTransform(coded.opt) =>
              /\ coded.transformed.bytes = Some(coded.img)
              /\ DetectedImage = coded.img

\* a GIF asked for as webp at quality 70, without a geometric operation
GifStaysGifWitness ==
    /\ coded.done /\ coded.img.format = ImageFormatGif /\ coded.img.frames = "ok"
    /\ coded.opt.Format = ImageFormatWebp /\ coded.opt.Quality = 70
    /\ ~optionsTransform(coded.opt)
    /\ coded.transformed = [bytes |-> Some(coded.img), format |-> ImageFormatGif,
                            err |-> FALSE]
    /\ coded.detected = [bytes |-> Absent, format |-> ImageFormatGif, err |-> FALSE]

(***************************************************************************)
(* imageproxy: the conditional answer of the front handler.  A date header *)
(* is <<>> when it is absent, <<n>> for the RFC1123 text of the second n,  *)
(* and <<-1>> for text that is no RFC1123 date.                            *)
(***************************************************************************)
\* time.Parse(time.RFC1123, v)
parseRFC1123(v) ==
    IF v = <<>> \/ v[1] < 0 THEN [err |-> TRUE, t |-> 0] ELSE [err |-> FALSE, t |-> v[1]]

\* check304: the entity tag, then the two dates
check304(req, resp) ==
    LET dates(lastModified, ifModSince) ==
            IF lastModified.err THEN FALSE
            ELSE IF ifModSince.err THEN FALSE
            ELSE lastModified.t < ifModSince.t
    IN  IF resp.Etag # "" /\ resp.Etag = req.IfNoneMatch THEN TRUE
        ELSE dates(parseRFC1123(resp.LastModified), parseRFC1123(req.IfModifiedSince))

\* writeResponseToWriter: the status, the Vary header and the body written
writeResponseToWriter(resp, r) ==
    IF check304(r, resp)
    THEN [status |-> 304, vary |-> "Accept", body |-> <<>>]
    ELSE [status |-> resp.StatusCode, vary |-> "Accept", body |-> resp.Body]

CondEtags == {"", "e1", "e2"}

CondDates == {<<>>, <<0 - 1>>, <<1>>, <<2>>, <<3>>}

CondInit ==
    \E inm \in CondEtags, ims \in CondDates, etag \in CondEtags, lm \in CondDates,
       status \in {200, 404} :
        notMod = [r |-> [IfNoneMatch |-> inm, IfModifiedSince |-> ims],
                  resp |-> [StatusCode |-> status, Body |-> <<"img1">>, Etag |-> etag,
                            LastModified |-> lm],
                  done |-> FALSE,
                  out |-> [status |-> 0, vary |-> "", body |-> <<>>]]

CondIdle == notMod = <<>>

WriteResponse ==
    /\ ~notMod.done
    /\ notMod' = [notMod EXCEPT !.done = TRUE,
                                !.out = writeResponseToWriter(notMod.resp, notMod.r)]

\* C15 as stated: the answer is 304 with Vary: Accept and no body exactly
\* when If-None-Match is the ETag of the response, or If-Modified-Since is
\* at or after its Last-Modified, both being RFC1123 dates.
NotModifiedIffValidatorMatches ==
    notMod.done =>
        ((notMod.out = [status |-> 304, vary |-> "Accept", body |-> <<>>])
         <=> \/ notMod.resp.Etag # "" /\ notMod.r.IfNoneMatch = notMod.resp.Etag
             \/ /\ ~parseRFC1123(notMod.resp.LastModified).err
                /\ ~parseRFC1123(notMod.r.IfModifiedSince).err
                /\ parseRFC1123(notMod.r.IfModifiedSince).t
                      >= parseRFC1123(notMod.resp.LastModified).t)


(***************************************************************************)
(* cache.Transport: CancelRequest against a RoundTrip under way.           *)
(*                                                                         *)
(* Each request has a goroutine in RoundTrip (rpc) and one that may call   *)
(* CancelRequest on it (cpc).  A step is what happens between two          *)
(* acquisitions of Transport.mu.  The inner transport records the requests *)
(* CancelRequest was called on; canceler tells whether it has the method.  *)
(* mu is the set of goroutines holding Transport.mu for reading; a section *)
(* under the write lock is one step, taken when nobody holds the mutex.    *)
(***************************************************************************)
FlightRequests == {"a", "b"}

Req(r) == [id |-> r, clone |-> FALSE]

cloneRequest(req) == [req EXCEPT !.clone = TRUE]

FlightInit ==
    \E canceler \in BOOLEAN :
        flight = [canceler |-> canceler,
                  modReq |-> [r \in FlightRequests |-> Absent],
                  rpc |-> [r \in FlightRequests |-> "idle"],
                  cpc |-> [r \in FlightRequests |-> "idle"],
                  reval |-> [r \in FlightRequests |-> FALSE],
                  sent |-> [r \in FlightRequests |-> Absent],
                  target |-> [r \in FlightRequests |-> Absent],
                  cancelled |-> {},
                  mu |-> {}]

\* RoundTrip up to the decision to revalidate: the entry is stale and has a
\* validator (revalidate), or the request goes on as it came
RoundTripBegin(r, revalidate) ==
    /\ flight.rpc[r] = "idle"
    /\ flight' = [flight EXCEPT !.rpc[r] = "begun", !.reval[r] = revalidate]

\* t.mu.Lock() succeeds when no reader holds the mutex
muLock == flight.mu = {}

\* t.setModReq(req, req2)
setModReq(r) ==
    /\ flight.rpc[r] = "begun" /\ flight.reval[r]
    /\ muLock
    /\ flight' = [flight EXCEPT !.rpc[r] = "mapped",
                                 !.modReq[r] = Some(cloneRequest(Req(r)))]

\* transport.RoundTrip(req), req being the clone after a setModReq
TransportRoundTrip(r) ==
    /\ \/ flight.rpc[r] = "begun" /\ ~flight.reval[r]
       \/ flight.rpc[r] = "mapped"
    /\ flight' = [flight EXCEPT
           !.rpc[r] = "sent",
           !.sent[r] = Some(IF flight.reval[r] THEN cloneRequest(Req(r)) ELSE Req(r))]

\* the inner transport returns and RoundTrip with it: with an error (err),
\* or with the cached response in place of the error (failsafe, the entry
\* allowing stale-if-error), or with a response.  The deferred function
\* releases the mapping when RoundTrip returns an error.
TransportReturns(r, err, failsafe) ==
    /\ flight.rpc[r] = "sent"
    /\ (err /\ ~failsafe /\ flight.reval[r]) => muLock
    /\ flight' = [flight EXCEPT
           !.rpc[r] = IF err /\ ~failsafe THEN "failed" ELSE "returned",
           !.modReq[r] = IF err /\ ~failsafe THEN Absent ELSE @]

\* the body of the response is read to its end: onEOFReader releases the mapping
BodyEOF(r) ==
    /\ flight.rpc[r] = "returned"
    /\ flight.reval[r] => muLock
    /\ flight' = [flight EXCEPT !.rpc[r] = "closed", !.modReq[r] = Absent]

\* the body of the response is closed, before or after its end was read:
\* onEOFReader.Close runs fn unless an EOF has run it already
BodyClose(r) ==
    /\ flight.rpc[r] \in {"returned", "closed"}
    /\ (flight.reval[r] /\ flight.rpc[r] = "returned") => muLock
    /\ flight' = [flight EXCEPT
           !.rpc[r] = "shut",
           !.modReq[r] = IF flight.rpc[r] = "returned" THEN Absent ELSE @]

\* CancelRequest(req) while RoundTrip(req) is under way: the type assertion
\* and t.mu.RLock()
CancelEnter(r) ==
    /\ flight.cpc[r] = "idle"
    /\ flight.rpc[r] \in {"begun", "mapped", "sent"}
    /\ flight' =
          IF ~flight.canceler THEN [flight EXCEPT !.cpc[r] = "done"]
          ELSE [flight EXCEPT !.cpc[r] = "rlocked", !.mu = @ \cup {r}]

\* CancelRequest: the read lock is held through the write section too
CancelLookup_KeepRLock(r) ==
    /\ flight.cpc[r] = "rlocked"
    /\ flight' =
          IF flight.modReq[r] # Absent
          THEN [flight EXCEPT !.cpc[r] = "found", !.target[r] = flight.modReq[r]]
          ELSE [flight EXCEPT !.cpc[r] = "call", !.target[r] = Some(Req(r)),
                              !.mu = @ \ {r}]

\* CancelRequest: the lookup under the read lock and t.mu.RUnlock()
CancelLookup(r) ==
    /\ flight.cpc[r] = "rlocked"
    /\ flight' =
          IF flight.modReq[r] # Absent
          THEN [flight EXCEPT !.cpc[r] = "found", !.target[r] = flight.modReq[r],
                              !.mu = @ \ {r}]
          ELSE [flight EXCEPT !.cpc[r] = "call", !.target[r] = Some(Req(r)),
                              !.mu = @ \ {r}]

\* CancelRequest: delete(t.modReq, req) under the write lock
CancelDelete(r) ==
    /\ flight.cpc[r] = "found"
    /\ muLock
    /\ flight' = [flight EXCEPT !.cpc[r] = "call", !.modReq[r] = Absent]

\* CancelRequest: tr.CancelRequest(modReq) or tr.CancelRequest(req)
CancelCall(r) ==
    /\ flight.cpc[r] = "call"
    /\ flight' = [flight EXCEPT
           !.cpc[r] = "done",
           !.cancelled = @ \cup {flight.target[r][1]}]

\* C27 as stated: when CancelRequest(orig) is called while RoundTrip(orig)
\* is under way (and the inner transport can cancel), the request that the
\* inner transport executes or is about to execute for it, the clone during
\* a revalidation and orig otherwise, is the one that is cancelled.
CancelReachesRequestInFlight ==
    \A r \in FlightRequests :
        (flight.canceler /\ flight.cpc[r] = "done") =>
            (IF flight.reval[r] THEN cloneRequest(Req(r)) ELSE Req(r))
                \in flight.cancelled

\* no goroutine waits for Transport.mu for ever: every holder of the mutex
\* is between its RLock and its RUnlock, which it reaches without waiting
MutexHoldersProceed ==
    \A h \in flight.mu : flight.cpc[h] = "rlocked"

\* RoundTrip has returned an error, or the body of its response was read to
\* EOF or closed
RoundTripOver(r) == flight.rpc[r] \in {"failed", "closed", "shut"}

\* C40 as stated: the modReq map has no entry for a request once its
\* RoundTrip has returned an error, or the body of the response was read to
\* EOF or closed, or CancelRequest has run for it, and no interleaving of
\* setModReq and CancelRequest deadlocks on the mutex.
ModReqReleasedAfterAnyEnd ==
    /\ \A r \in FlightRequests :
          (RoundTripOver(r) \/ flight.cpc[r] = "done")
              => flight.modReq[r] = Absent
    /\ MutexHoldersProceed

\* C40, amended: the modReq map holds an entry for a request only between
\* the setModReq of its revalidation and the end of its RoundTrip (an error
\* returned, or the body read to EOF or closed); a CancelRequest that found
\* the entry has removed it, while one that ran before the entry was made,
\* or on an inner transport without CancelRequest, leaves the map as it is;
\* and no interleaving of setModReq and CancelRequest deadlocks on the mutex.
ModReqOnlyWhileOutstanding ==
    /\ \A r \in FlightRequests :
          /\ RoundTripOver(r) => flight.modReq[r] = Absent
          /\ flight.modReq[r] # Absent
                => /\ flight.reval[r]
                   /\ flight.rpc[r] \in {"mapped", "sent", "returned"}
                   /\ flight.modReq[r] = Some(cloneRequest(Req(r)))
          /\ (flight.cpc[r] \in {"call", "done"}
                /\ flight.target[r] = Some(cloneRequest(Req(r))))
                => flight.modReq[r] = Absent
    /\ MutexHoldersProceed

\* one revalidation ended by an error of RoundTrip, the other by a
\* CancelRequest that found the entry and by the close of the body after
\* its EOF
ModReqOnlyWhileOutstandingWitness ==
    \E r, q \in FlightRequests :
        /\ flight.reval[r] /\ flight.rpc[r] = "failed"
        /\ flight.reval[q] /\ flight.rpc[q] = "shut"
        /\ flight.cpc[q] = "done"
        /\ flight.target[q] = Some(cloneRequest(Req(q)))
        /\ flight.modReq[r] = Absent /\ flight.modReq[q] = Absent

(***************************************************************************)
(* cmds/improxy.go: main after a signal, against the handlers.             *)
(*                                                                         *)
(* mpc is the position of main, hpc the one of the goroutine that net/http *)
(* starts for an accepted request, wg the counter of the wait group.       *)
(***************************************************************************)
MaxHandlers == 3

Handlers == 1..MaxHandlers

ShutInit ==
    shut = [mpc |-> "serving", hpc |-> [h \in Handlers |-> "none"], wg |-> 0]

\* the server accepts an image request and starts ServeHTTP for it
Accept(h) ==
    /\ shut.mpc \in {"serving", "signalled"}
    /\ shut.hpc[h] = "none"
    /\ shut' = [shut EXCEPT !.hpc[h] = "accepted"]

\* ServeHTTP: p.Wg.Add(1)
WgAdd(h) ==
    /\ shut.mpc # "exited"
    /\ shut.hpc[h] = "accepted"
    /\ shut' = [shut EXCEPT !.hpc[h] = "added", !.wg = @ + 1]

\* ServeHTTP: h.ServeHTTP(w, r) returns
ServeHTTP(h) ==
    /\ shut.mpc # "exited"
    /\ shut.hpc[h] = "added"
    /\ shut' = [shut EXCEPT !.hpc[h] = "served"]

\* ServeHTTP: the deferred p.Wg.Done()
WgDone(h) ==
    /\ shut.mpc # "exited"
    /\ shut.hpc[h] = "served"
    /\ shut' = [shut EXCEPT !.hpc[h] = "done", !.wg = @ - 1]

\* main: sig := <-sigchan
Signal ==
    /\ shut.mpc = "serving"
    /\ shut' = [shut EXCEPT !.mpc = "signalled"]

\* main: server.Close()
ServerClose ==
    /\ shut.mpc = "signalled"
    /\ shut' = [shut EXCEPT !.mpc = "closed"]

\* main: wg.Wait() returns, and main with it
WgWait ==
    /\ shut.mpc = "closed"
    /\ shut.wg = 0
    /\ shut' = [shut EXCEPT !.mpc = "exited"]

\* C28 as stated: after the signal the process does not exit while an
\* image request that was accepted before the shutdown is still being
\* handled.
ExitWaitsForAcceptedRequests ==
    shut.mpc = "exited" => \A h \in Handlers : shut.hpc[h] \in {"none", "done"}

(***************************************************************************)
(* imageproxy: TransformingTransport.S3ResourceProcess.  objs holds the    *)
(* bucket of the object store, the cache handed to NewProxy (NopCache when *)
(* none was configured), per origin key the object body that the last      *)
(* successful fetch stored, and the last call.                             *)
(***************************************************************************)
AWS_S3_PREFIX == <<"a", "w", "s", "s", "3">>

ObjPaths == {<<"/", "a">>, <<"/", "b">>}
ObjVersions == {<<"t", "s", "=", "1">>, <<"t", "s", "=", "2">>}
ObjFragments == {<<>>, <<"1", "x">>, <<"f", "i", "t">>}

ObjURLs ==
    { [Scheme |-> <<"h", "t", "t", "p">>, Host |-> AWS_S3_PREFIX, Path |-> p,
       RawQuery |-> q, Fragment |-> f] :
          p \in ObjPaths, q \in ObjVersions, f \in ObjFragments }

\* s3.GetObjectOutput: the body, and the ETag if the store sent one
ObjObjects ==
    { [Body |-> <<"img1">>, ETag |-> Some("e1")],
      [Body |-> <<"img2">>, ETag |-> Absent] }

\* what a GetObject may run into
ObjFaults == {None, "NoSuchBucket", "RequestError", "read"}

\* DataCacheKeyForURL
DataCacheKeyForURL(u) == <<"v", "2", ":">> \o ReplaceAll(URLString(u), "#", "_")

ObjCacheKeys == {DataCacheKeyForURL(u) : u \in ObjURLs}

\* S3ResourceProcess keeps the fragment in the URL of the origin
originImageUrl_KeepFragment(u) == u

\* originImageUrl := *req.URL; originImageUrl.Fragment = ""
originImageUrl(u) == [u EXCEPT !.Fragment = <<>>]

\* S3Meta2Headers: the header lines, one element a line
S3Meta2Headers(meta) ==
    <<<<"Cache-Control", kMaxAge>>>>
    \o (IF meta.ETag # Absent THEN <<<<"ETag", meta.ETag[1]>>>> ELSE <<>>)

\* GetContentFromAWSWithMeta: the object under key, or the error of GetObject
\* or of reading its body
GetContentFromAWSWithMeta(bucket, key, fault) ==
    IF fault = "NoSuchBucket" \/ fault = "RequestError"
    THEN [content |-> <<>>, headers |-> <<>>, err |-> fault]
    ELSE IF bucket[<<"/">> \o key] = Absent
    THEN [content |-> <<>>, headers |-> <<>>, err |-> "NoSuchKey"]
    ELSE [content |-> IF fault = "read" THEN <<>> ELSE bucket[<<"/">> \o key][1].Body,
          headers |-> S3Meta2Headers(bucket[<<"/">> \o key][1]),
          err |-> fault]

\* ImageWithMeta.Bytes: the length of the headers as a big-endian uint16,
\* the headers, the image
ImageWithMetaBytes(this) ==
    <<(Len(this.Headers) \div 256) % 256, Len(this.Headers) % 256>>
    \o this.Headers \o this.Image

NewImageWithMetaFromCache(data) ==
    LET headLength == data[1] * 256 + data[2]
    IN  [Headers |-> SubSeq(data, 3, 2 + headLength),
         Image |-> SubSeq(data, 3 + headLength, Len(data))]

\* the last call: the URL asked for, the entry under its origin key when the
\* call began, whether GetObject was called, the bytes handed to transform,
\* whether the cache was written, and how the call ended
NoCall ==
    [url |-> None, before |-> Absent, contacted |-> FALSE, image |-> Absent,
     wrote |-> FALSE, status |-> None]

ObjInit ==
    \E nop \in BOOLEAN :
        objs = [bucket |-> [p \in ObjPaths |-> Absent], nop |-> nop,
                cache |-> [k \in ObjCacheKeys |-> Absent],
                origin |-> [k \in ObjCacheKeys |-> Absent],
                last |-> NoCall]

\* S3ResourceProcess(req) for the URL u of req
S3ResourceProcess(o, u, fault) ==
    LET originDataCacheKey == DataCacheKeyForURL(originImageUrl(u))
        data == IF o.nop THEN Absent ELSE Get(o.cache, originDataCacheKey)
        \* t.transform(req, cacheData, false)
        transform(cacheData, kept, origin, contacted) ==
            [o EXCEPT
                !.cache = kept,
                !.origin = origin,
                !.last = [url |-> u, before |-> data, contacted |-> contacted,
                          image |-> Some(cacheData.Image),
                          wrote |-> kept # o.cache,
                          status |-> IF Transform(cacheData.Image, u.Fragment).err
                                     THEN "error" ELSE "ok"]]
        failed(status) ==
            [o EXCEPT !.last = [url |-> u, before |-> data, contacted |-> TRUE,
                                image |-> Absent, wrote |-> FALSE, status |-> status]]
        fetched(got) ==
            IF got.err \in {"NoSuchBucket", "NoSuchKey"} THEN failed("404")
            ELSE IF got.err # None THEN failed("error")
            ELSE LET cacheData == [Headers |-> got.headers, Image |-> got.content]
                 IN  IF o.nop THEN transform(cacheData, o.cache, o.origin, TRUE)
                     ELSE transform(cacheData,
                                    Set(o.cache, originDataCacheKey,
                                        ImageWithMetaBytes(cacheData)),
                                    [o.origin EXCEPT ![originDataCacheKey] =
                                        Some(got.content)],
                                    TRUE)
    IN  IF data # Absent /\ Len(data[1]) > 0
        THEN transform(NewImageWithMetaFromCache(data[1]), o.cache, o.origin, FALSE)
        ELSE fetched(GetContentFromAWSWithMeta(o.bucket, Tail(u.Path), fault))

\* a request for u reaches TransformingTransport.RoundTrip
ObjRoundTrip(u, fault) ==
    /\ objs # <<>>
    /\ u.Host = AWS_S3_PREFIX
    /\ objs' = S3ResourceProcess(objs, u, fault)

\* the surroundings: an object is uploaded to the bucket, or removed from it
PutObject(p, obj) ==
    /\ objs # <<>>
    /\ objs.bucket[p] # Some(obj)
    /\ objs' = [objs EXCEPT !.bucket[p] = Some(obj), !.last = NoCall]

DeleteObject(p) ==
    /\ objs # <<>>
    /\ objs.bucket[p] # Absent
    /\ objs' = [objs EXCEPT !.bucket[p] = Absent, !.last = NoCall]

\* C30: once a fetch of key K with version ts has stored the object under
\* the origin key, every later request for a transformation of the same K
\* and ts, while that entry is present, hands the stored object bytes to the
\* transformer and does not call the object store; and a call that ends
\* with NoSuchKey, NoSuchBucket or another fetch error writes nothing to the
\* cache.
OriginFetchedOnce ==
    /\ (objs.last.status # None /\ objs.last.before # Absent)
          => /\ ~objs.last.contacted
             /\ objs.last.image =
                   objs.origin[DataCacheKeyForURL([objs.last.url EXCEPT !.Fragment = <<>>])]
    /\ (objs.last.status # None /\ objs.last.contacted /\ objs.last.image = Absent)
          => ~objs.last.wrote
    /\ \A k \in ObjCacheKeys : objs.cache[k] # Absent => objs.origin[k] # Absent

\* a transformation was answered from the origin entry after the object
\* had been replaced in the bucket
OriginFetchedOnceWitness ==
    /\ objs.last.status # None
    /\ objs.last.url.Fragment # <<>>
    /\ objs.last.before # Absent
    /\ objs.last.status = "ok"
    /\ objs.last.image # Absent
    /\ objs.bucket[objs.last.url.Path] # Absent
    /\ objs.bucket[objs.last.url.Path][1].Body # objs.last.image[1]

(***************************************************************************)
(* imageproxy: Proxy.serveImage in front of the Client of NewProxy, whose  *)
(* Transport is the outer cache.  served holds the proxy and the last      *)
(* inbound request with its outcome.                                       *)
(***************************************************************************)
\* inbound requests: one that normalizes, one for a listed host, and ones
\* without the prefix, with another scheme, and with an unknown format
ProxyInbound ==
    { [Path |-> path, ts |-> <<"7">>, others |-> <<>>, Accept |-> {}, Referer |-> ref,
       tk |-> Absent] :
          path \in {<<"/", "t", "o", "o", "l", "s", "/", "i", "m", "/", "1", "x", "2", "/", "a">>,
                    <<"/", "t", "o", "o", "l", "s", "/", "i", "m", "/", "h", "t", "t", "p", ":", "/", "/", "h", "/", "a">>,
                    <<"/", "x", "/", "a">>,
                    <<"/", "t", "o", "o", "l", "s", "/", "i", "m", "/", "1", "x", "2", "/", "f", "t", "p", ":", "/", "/", "h", "/", "a">>,
                    <<"/", "t", "o", "o", "l", "s", "/", "i", "m", "/", "f", "b", "m", "p", "/", "a">>},
          ref \in RequestReferers }

\* the URLs Client.Get is called with, by serveImage and by the inner
\* transport, and their keys
ProxyURLs ==
    LET urls(str) ==
            IF str = <<>> THEN {}
            ELSE {str, URLString([urlParse(str) EXCEPT !.Fragment = <<>>])}
    IN  UNION { urls(serveImage(p, r, RequestNow).str) :
                   p \in ProxyConfigs, r \in ProxyInbound }

ProxyCacheKeys == {CacheKey(u) : u \in ProxyURLs}

\* what the origins answer: an error, an image, a missing image
ProxyOrigins(now) ==
    {o \in OriginOutcomes(now) :
        o.err \/ (o.resp.StatusCode \in {200, 404} /\ o.resp.Body \in DecodableBodies)}

ProxyInit ==
    /\ \E p \in ProxyConfigs :
          served = [p |-> p, r |-> Absent, out |-> NoOutcome, changed |-> FALSE]
    /\ tcache = [k \in ProxyCacheKeys |-> Absent]
    /\ tclock = 0
    /\ tclient = "proxy"
    /\ trip = NoTrip

\* serveImage: the request is answered 404 or 403, or handed to Client.Get
ProxyServeImage(r, origin) ==
    \E out \in {serveImage(served.p, r, RequestNow)} :
        /\ IF out.status = "Client.Get"
           THEN CacheRoundTrip(ClientGet(out.str), origin, 0)
           ELSE trip' = NoTrip /\ UNCHANGED <<tcache, tclock, tclient>>
        /\ served' = [served EXCEPT !.r = Some(r), !.out = out,
                                    !.changed = tcache' # tcache]

\* the request does not normalize, or asks for an unknown format, or comes
\* from a referrer or for a host that the lists of the proxy do not allow
Rejected(p, r) ==
    LET refused(n) ==
            \/ n.err # ""
            \/ FileContentType(n.Options.Format) = "" /\ Len(n.Options.Format) > 0
            \/ Len(p.Referrers) > 0 /\ ~validReferrer(p.Referrers, r)
            \/ Len(p.Whitelist) > 0 /\ ~validHost(p.Whitelist, n.URL)
    IN  refused(NewRequest(r, p.DefaultBaseURL))

\* C31: a request that normalization rejects is answered 404 and one that
\* the access checks reject is answered 403, and neither looks a key up in
\* the outer cache, reaches the inner transport or changes the cache.
RejectedTouchesNothing ==
    (served.r # Absent /\ Rejected(served.p, served.r[1]))
        => /\ served.out.status =
                 IF NewRequest(served.r[1], served.p.DefaultBaseURL).err # ""
                 THEN "404" ELSE "403"
           /\ ~trip.done /\ ~trip.invoked
           /\ ~served.changed

\* a request was refused with 403 while the cache held a response
RejectedTouchesNothingWitness ==
    /\ served.r # Absent
    /\ Rejected(served.p, served.r[1])
    /\ served.out.status = "403"
    /\ \E k \in ProxyCacheKeys : tcache[k] # Absent

(***************************************************************************)
(* imageproxy: the frame loop of GifProcess.  img and previous are         *)
(* pointers to RGBA images: heap holds the images that were allocated, and *)
(* img and previous are positions in it.                                   *)
(***************************************************************************)
MaxFrames == 3
GifPixels == {1, 2}
\* 0 is the transparent colour
GifColours == {0, 1, 2}
GifDisposals == {"None", "Background", "Previous"}

GifFrames == [pix : [GifPixels -> GifColours], disposal : GifDisposals]

\* image.NewRGBA(b)
NewRGBA == [p \in GifPixels |-> 0]

\* draw.Draw(dst, bounds, frame, bounds.Min, draw.Over)
drawOver(dst, frame) == [p \in GifPixels |-> IF frame[p] # 0 THEN frame[p] ELSE dst[p]]

\* after gif.DecodeAll: the canvas of the size of the first frame.  before
\* and drawn are the canvas before and after the last frame was drawn.
GifInit ==
    \E n \in 1..MaxFrames : \E fs \in [1..n -> GifFrames] :
        anim = [Image |-> fs, index |-> 1, heap |-> <<NewRGBA>>, img |-> 1,
                previous |-> 1, out |-> <<>>, before |-> NewRGBA, drawn |-> NewRGBA,
                encoded |-> FALSE]

\* one pass of the loop over im.Image
GifFrame ==
    /\ anim # <<>>
    /\ anim.index <= Len(anim.Image)
    /\ LET frame == anim.Image[anim.index]
           previous == anim.img
           drawn == drawOver(anim.heap[anim.img], frame.pix)
           heap1 == [anim.heap EXCEPT ![anim.img] = drawn]
       IN  anim' = [anim EXCEPT
               !.index = @ + 1,
               !.previous = previous,
               !.out = Append(@, drawn),
               !.before = anim.heap[anim.img],
               !.drawn = drawn,
               !.heap = IF frame.disposal = "Background" THEN Append(heap1, NewRGBA)
                        ELSE heap1,
               !.img = IF frame.disposal = "Background" THEN Len(heap1) + 1
                       ELSE IF frame.disposal = "Previous" THEN previous
                       ELSE anim.img]

\* gif.EncodeAll(w, im)
GifEncodeAll ==
    /\ anim # <<>>
    /\ anim.index > Len(anim.Image)
    /\ ~anim.encoded
    /\ anim' = [anim EXCEPT !.encoded = TRUE]

\* C32: after a frame with disposal Previous has been emitted the canvas is
\* the canvas as it was before the frame was drawn; after a frame with
\* disposal Background it is blank; after any other frame it keeps the frame
\* drawn on it.
DisposalHonoured ==
    (anim.index > 1) =>
        anim.heap[anim.img] =
            IF anim.Image[anim.index - 1].disposal = "Previous" THEN anim.before
            ELSE IF anim.Image[anim.index - 1].disposal = "Background" THEN NewRGBA
            ELSE anim.drawn

(***************************************************************************)
(* imageproxy and cache: the keys of the outer cache for two inbound       *)
(* requests that serveImage hands to Client.Get.                           *)
(***************************************************************************)
KeyPaths ==
    {<<"/", "t", "o", "o", "l", "s", "/", "i", "m", "/", "1", "x", "2", "/", "a">>,
     <<"/", "t", "o", "o", "l", "s", "/", "i", "m", "/", "h", "t", "t", "p", ":", "/", "/", "o", "/", "a", "_", "1", "x", "2">>,
     <<"/", "t", "o", "o", "l", "s", "/", "i", "m", "/", "h", "t", "t", "p", ":", "/", "/", "o", "/", "a">>,
     <<"/", "t", "o", "o", "l", "s", "/", "i", "m", "/", "f", "i", "t", "/", "a">>,
     <<"/", "t", "o", "o", "l", "s", "/", "i", "m", "/", "1", "x", "2", "/", "b">>}
KeyVersions == {<<>>, <<"7">>, <<"7", "_", "1", "x", "2">>}

KeyInbound ==
    { [Path |-> path, ts |-> ts, others |-> <<>>, Accept |-> acc, Referer |-> <<>>,
       tk |-> Absent] :
          path \in KeyPaths, ts \in KeyVersions, acc \in RequestAccepts }

\* the proxy of improxy.go, with the base URL of the model
KeyProxy ==
    [DefaultBaseURL |-> Some(urlParse(<<"h", "t", "t", "p", ":", "/", "/", "o", "/">>)),
     Whitelist |-> <<>>, Referrers |-> <<>>]

KeyInit ==
    \E a \in KeyInbound, b \in KeyInbound :
        pair = [a |-> a, b |-> b, done |-> FALSE, outA |-> NoOutcome, outB |-> NoOutcome]

\* both requests are normalized and their keys computed
ServePair ==
    /\ pair # <<>>
    /\ ~pair.done
    /\ pair' = [pair EXCEPT
           !.done = TRUE,
           !.outA = serveImage(KeyProxy, pair.a, RequestNow),
           !.outB = serveImage(KeyProxy, pair.b, RequestNow)]

\* C36: two normalized requests that differ in the origin URL or in the
\* canonical options string have different keys in the outer cache.
DistinctRequestsDistinctKeys ==
    (/\ pair.done
     /\ pair.outA.status = "Client.Get" /\ pair.outB.status = "Client.Get"
     /\ \/ pair.outA.req.URL # pair.outB.req.URL
        \/ OptionsString(pair.outA.req.Options) # OptionsString(pair.outB.req.Options))
        => pair.outA.key # pair.outB.key

(***************************************************************************)
(* imageproxy: validHost and validReferrer on the lists of the proxy.      *)
(***************************************************************************)
AclEntries == {<<"h", ".", "c">>, <<"*", ".", "e", ".", "c">>, <<"*", ".", "c">>}

AclLists == UNION {[1..n -> AclEntries] : n \in 1..2}

AclHosts ==
    {<<"h", ".", "c">>, <<"e", ".", "c">>, <<"a", ".", "e", ".", "c">>,
     <<"x", "e", ".", "c">>, <<"c">>, <<"x", "c">>, <<"e", ".", "c", ".", "x">>}

AclInit ==
    \E hosts \in AclLists, host \in AclHosts, check \in {"host", "referrer"} :
        acl = [hosts |-> hosts, host |-> host, check |-> check, done |-> FALSE,
               ok |-> FALSE]

\* p.allowed: validHost(p.Whitelist, r.URL), or validReferrer(p.Referrers,
\* r.Original) for a Referer header that names the host
CheckHost ==
    /\ acl # <<>>
    /\ ~acl.done
    /\ acl' = [acl EXCEPT
           !.done = TRUE,
           !.ok = IF acl.check = "host"
                  THEN validHost(acl.hosts, [EmptyURL EXCEPT !.Host = acl.host])
                  ELSE validReferrer(acl.hosts,
                           [Referer |-> <<"h", "t", "t", "p", ":", "/", "/">> \o acl.host
                                            \o <<"/", "p">>])]

\* host is listed: it is an entry, or for an entry *.suffix it is suffix or
\* ends with .suffix
ListedHost(hosts, host) ==
    \E i \in 1..Len(hosts) :
        \/ host = hosts[i]
        \/ /\ HasPrefix(hosts[i], <<"*", ".">>)
           /\ \/ host = SubSeq(hosts[i], 3, Len(hosts[i]))
              \/ HasSuffix(host, SubSeq(hosts[i], 2, Len(hosts[i])))

\* C38: validHost, and validReferrer for the host of the Referer, accept a
\* host only if it equals an entry of the list or, for an entry *.suffix, is
\* suffix or ends with .suffix.
OnlyListedHostsAccepted ==
    (acl.done /\ acl.ok) => ListedHost(acl.hosts, acl.host)

(***************************************************************************)
(* Specifications                                                          *)
(***************************************************************************)
OptNext ==
    \/ OptString /\ UNCHANGED <<diskVars, signVars, alignVars, xformVars, serveVars, cacheVars, codecVars, condVars, cancelVars, shutVars, objVars, gifVars, aclVars, keyVars>>
    \/ OptParse /\ UNCHANGED <<diskVars, signVars, alignVars, xformVars, serveVars, cacheVars, codecVars, condVars, cancelVars, shutVars, objVars, gifVars, aclVars, keyVars>>

InitOptions == OptInit /\ DiskIdle /\ SignIdle /\ AlignIdle /\ XformIdle /\ ServeIdle /\ CacheIdle
    /\ CodecIdle /\ CondIdle
    /\ CancelIdle /\ ShutIdle /\ ObjIdle
    /\ GifIdle /\ AclIdle /\ KeyIdle

SpecOptions == InitOptions /\ [][OptNext]_vars

DiskNext ==
    \/ \E t \in DiskTasks, k \in DiskKeys :
          ReadStream(t, k) /\ UNCHANGED <<optVars, signVars, alignVars, xformVars, serveVars, cacheVars, codecVars, condVars, cancelVars, shutVars, objVars, gifVars, aclVars, keyVars>>
    \/ \E t \in DiskTasks :
          siphonRead(t) /\ UNCHANGED <<optVars, signVars, alignVars, xformVars, serveVars, cacheVars, codecVars, condVars, cancelVars, shutVars, objVars, gifVars, aclVars, keyVars>>
    \/ \E t \in DiskTasks :
          cacheWithoutLock(t) /\ UNCHANGED <<optVars, signVars, alignVars, xformVars, serveVars, cacheVars, codecVars, condVars, cancelVars, shutVars, objVars, gifVars, aclVars, keyVars>>
    \/ \E w \in DiskWrites :
          WriteStream(w[1], w[2], w[3]) /\ UNCHANGED <<optVars, signVars, alignVars, xformVars, serveVars, cacheVars, codecVars, condVars, cancelVars, shutVars, objVars, gifVars, aclVars, keyVars>>
    \/ \E t \in DiskTasks :
          writeStreamWithLock(t) /\ UNCHANGED <<optVars, signVars, alignVars, xformVars, serveVars, cacheVars, codecVars, condVars, cancelVars, shutVars, objVars, gifVars, aclVars, keyVars>>
    \/ \E t \in DiskTasks, k \in DiskKeys :
          Erase(t, k) /\ UNCHANGED <<optVars, signVars, alignVars, xformVars, serveVars, cacheVars, codecVars, condVars, cancelVars, shutVars, objVars, gifVars, aclVars, keyVars>>

InitDisk == DiskInit /\ OptIdle /\ SignIdle /\ AlignIdle /\ XformIdle /\ ServeIdle /\ CacheIdle
    /\ CodecIdle /\ CondIdle
    /\ CancelIdle /\ ShutIdle /\ ObjIdle
    /\ GifIdle /\ AclIdle /\ KeyIdle

SpecDisk == InitDisk /\ [][DiskNext]_vars

SignNext ==
    \/ Tick /\ UNCHANGED <<optVars, diskVars, alignVars, xformVars, serveVars, cacheVars, codecVars, condVars, cancelVars, shutVars, objVars, gifVars, aclVars, keyVars>>
    \/ \E p \in SignPaths, ts \in SignVersions, e \in SignExpiries :
          IssueWithTime(p, ts, e) /\ UNCHANGED <<optVars, diskVars, alignVars, xformVars, serveVars, cacheVars, codecVars, condVars, cancelVars, shutVars, objVars, gifVars, aclVars, keyVars>>
    \/ \E p \in SignPaths, ts \in SignVersions, l \in SignLifetimes :
          Issue(p, ts, l) /\ UNCHANGED <<optVars, diskVars, alignVars, xformVars, serveVars, cacheVars, codecVars, condVars, cancelVars, shutVars, objVars, gifVars, aclVars, keyVars>>
    \/ \E p \in SignPaths, ts \in SignVersions, tk \in PresentedTokens :
          Verify(p, ts, tk) /\ UNCHANGED <<optVars, diskVars, alignVars, xformVars, serveVars, cacheVars, codecVars, condVars, cancelVars, shutVars, objVars, gifVars, aclVars, keyVars>>

InitSign == SignInit /\ OptIdle /\ DiskIdle /\ AlignIdle /\ XformIdle /\ ServeIdle /\ CacheIdle
    /\ CodecIdle /\ CondIdle
    /\ CancelIdle /\ ShutIdle /\ ObjIdle
    /\ GifIdle /\ AclIdle /\ KeyIdle

SpecSign == InitSign /\ [][SignNext]_vars

AlignNext ==
    \E k \in SignKeys, l \in AlignLifetimes, now \in AlignClocks :
        Align(k, l, now) /\ UNCHANGED <<optVars, diskVars, signVars, xformVars, serveVars, cacheVars, codecVars, condVars, cancelVars, shutVars, objVars, gifVars, aclVars, keyVars>>

InitAlign == AlignInit /\ OptIdle /\ DiskIdle /\ SignIdle /\ XformIdle /\ ServeIdle /\ CacheIdle
    /\ CodecIdle /\ CondIdle
    /\ CancelIdle /\ ShutIdle /\ ObjIdle
    /\ GifIdle /\ AclIdle /\ KeyIdle

SpecAlign == InitAlign /\ [][AlignNext]_vars

XformNext == TransformImage /\ UNCHANGED <<optVars, diskVars, signVars, alignVars, serveVars, cacheVars, codecVars, condVars, cancelVars, shutVars, objVars, gifVars, aclVars, keyVars>>

InitXform == XformInit /\ OptIdle /\ DiskIdle /\ SignIdle /\ AlignIdle /\ ServeIdle /\ CacheIdle
    /\ CodecIdle /\ CondIdle
    /\ CancelIdle /\ ShutIdle /\ ObjIdle
    /\ GifIdle /\ AclIdle /\ KeyIdle

SpecResize == InitXform /\ [][XformNext]_vars

ServeNext ==
    ServeImage /\ UNCHANGED <<optVars, diskVars, signVars, alignVars, xformVars, cacheVars, codecVars, condVars, cancelVars, shutVars, objVars, gifVars, aclVars, keyVars>>

InitServe == ServeInit /\ OptIdle /\ DiskIdle /\ SignIdle /\ AlignIdle /\ XformIdle /\ CacheIdle
    /\ CodecIdle /\ CondIdle
    /\ CancelIdle /\ ShutIdle /\ ObjIdle
    /\ GifIdle /\ AclIdle /\ KeyIdle

SpecRequest == InitServe /\ [][ServeNext]_vars

CacheNext ==
    \/ CacheTick /\ UNCHANGED <<optVars, diskVars, signVars, alignVars, xformVars, serveVars, codecVars, condVars, cancelVars, shutVars, objVars, gifVars, aclVars, keyVars>>
    \/ \E req \in ClientRequests(tclient), origin \in OriginOutcomes(tclock) :
          \E zone \in ZonesOf(req) :
              CacheRoundTrip(req, origin, zone)
          /\ UNCHANGED <<optVars, diskVars, signVars, alignVars, xformVars, serveVars, codecVars, condVars, cancelVars, shutVars, objVars, gifVars, aclVars, keyVars>>

InitCache ==
    CacheInit /\ OptIdle /\ DiskIdle /\ SignIdle /\ AlignIdle /\ XformIdle /\ ServeIdle
    /\ CodecIdle /\ CondIdle
    /\ CancelIdle /\ ShutIdle /\ ObjIdle
    /\ GifIdle /\ AclIdle /\ KeyIdle

SpecCache == InitCache /\ [][CacheNext]_vars

\* the Transport used by an agent, one call after the other, over a store
\* whose bytes can be damaged between two calls
RevalidateNext ==
    \/ ~trip.done /\ CacheTick
          /\ UNCHANGED <<optVars, diskVars, signVars, alignVars, xformVars, serveVars, codecVars, condVars, cancelVars, shutVars, objVars, gifVars, aclVars, keyVars>>
    \/ ~trip.done /\ CacheCorrupt
          /\ UNCHANGED <<optVars, diskVars, signVars, alignVars, xformVars, serveVars, codecVars, condVars, cancelVars, shutVars, objVars, gifVars, aclVars, keyVars>>
    \/ \E req \in ClientRequests(tclient), origin \in AgentOutcomes(tclock) :
          ~trip.done /\ CacheRoundTrip(req, origin, 0)
          /\ UNCHANGED <<optVars, diskVars, signVars, alignVars, xformVars, serveVars, codecVars, condVars, cancelVars, shutVars, objVars, gifVars, aclVars, keyVars>>
    \/ CacheReturn
          /\ UNCHANGED <<optVars, diskVars, signVars, alignVars, xformVars, serveVars, codecVars, condVars, cancelVars, shutVars, objVars, gifVars, aclVars, keyVars>>

InitRevalidate ==
    /\ tcache = [k \in CacheKeys |-> Absent] /\ tclock = 0 /\ tclient = "agent"
    /\ trip = NoTrip
    /\ OptIdle /\ DiskIdle /\ SignIdle /\ AlignIdle /\ XformIdle /\ ServeIdle
    /\ CodecIdle /\ CondIdle
    /\ CancelIdle /\ ShutIdle /\ ObjIdle
    /\ GifIdle /\ AclIdle /\ KeyIdle

SpecRevalidate == InitRevalidate /\ [][RevalidateNext]_vars

CodecNext ==
    CodecTransform
    /\ UNCHANGED <<optVars, diskVars, signVars, alignVars, xformVars, serveVars, cacheVars,
                   condVars, cancelVars, shutVars, objVars, gifVars, aclVars, keyVars>>

InitCodec ==
    CodecInit /\ OptIdle /\ DiskIdle /\ SignIdle /\ AlignIdle /\ XformIdle /\ ServeIdle
    /\ CacheIdle /\ CondIdle
    /\ CancelIdle /\ ShutIdle /\ ObjIdle
    /\ GifIdle /\ AclIdle /\ KeyIdle

SpecFormat == InitCodec /\ [][CodecNext]_vars

CondNext ==
    WriteResponse
    /\ UNCHANGED <<optVars, diskVars, signVars, alignVars, xformVars, serveVars, cacheVars,
                   codecVars, cancelVars, shutVars, objVars, gifVars, aclVars, keyVars>>

InitCond ==
    CondInit /\ OptIdle /\ DiskIdle /\ SignIdle /\ AlignIdle /\ XformIdle /\ ServeIdle
    /\ CacheIdle /\ CodecIdle
    /\ CancelIdle /\ ShutIdle /\ ObjIdle
    /\ GifIdle /\ AclIdle /\ KeyIdle

SpecNotModified == InitCond /\ [][CondNext]_vars

CancelNext ==
    \/ \E r \in FlightRequests, revalidate \in BOOLEAN :
          RoundTripBegin(r, revalidate)
          /\ UNCHANGED <<optVars, diskVars, signVars, alignVars, xformVars, serveVars, cacheVars, codecVars, condVars, shutVars, objVars, gifVars, aclVars, keyVars>>
    \/ \E r \in FlightRequests :
          setModReq(r)
          /\ UNCHANGED <<optVars, diskVars, signVars, alignVars, xformVars, serveVars, cacheVars, codecVars, condVars, shutVars, objVars, gifVars, aclVars, keyVars>>
    \/ \E r \in FlightRequests :
          TransportRoundTrip(r)
          /\ UNCHANGED <<optVars, diskVars, signVars, alignVars, xformVars, serveVars, cacheVars, codecVars, condVars, shutVars, objVars, gifVars, aclVars, keyVars>>
    \/ \E r \in FlightRequests, err \in BOOLEAN, failsafe \in BOOLEAN :
          TransportReturns(r, err, failsafe)
          /\ UNCHANGED <<optVars, diskVars, signVars, alignVars, xformVars, serveVars, cacheVars, codecVars, condVars, shutVars, objVars, gifVars, aclVars, keyVars>>
    \/ \E r \in FlightRequests :
          BodyEOF(r)
          /\ UNCHANGED <<optVars, diskVars, signVars, alignVars, xformVars, serveVars, cacheVars, codecVars, condVars, shutVars, objVars, gifVars, aclVars, keyVars>>
    \/ \E r \in FlightRequests :
          BodyClose(r)
          /\ UNCHANGED <<optVars, diskVars, signVars, alignVars, xformVars, serveVars, cacheVars, codecVars, condVars, shutVars, objVars, gifVars, aclVars, keyVars>>
    \/ \E r \in FlightRequests :
          CancelEnter(r)
          /\ UNCHANGED <<optVars, diskVars, signVars, alignVars, xformVars, serveVars, cacheVars, codecVars, condVars, shutVars, objVars, gifVars, aclVars, keyVars>>
    \/ \E r \in FlightRequests :
          CancelLookup(r)
          /\ UNCHANGED <<optVars, diskVars, signVars, alignVars, xformVars, serveVars, cacheVars, codecVars, condVars, shutVars, objVars, gifVars, aclVars, keyVars>>
    \/ \E r \in FlightRequests :
          CancelDelete(r)
          /\ UNCHANGED <<optVars, diskVars, signVars, alignVars, xformVars, serveVars, cacheVars, codecVars, condVars, shutVars, objVars, gifVars, aclVars, keyVars>>
    \/ \E r \in FlightRequests :
          CancelCall(r)
          /\ UNCHANGED <<optVars, diskVars, signVars, alignVars, xformVars, serveVars, cacheVars, codecVars, condVars, shutVars, objVars, gifVars, aclVars, keyVars>>

InitCancel ==
    FlightInit /\ OptIdle /\ DiskIdle /\ SignIdle /\ AlignIdle /\ XformIdle /\ ServeIdle
    /\ CacheIdle /\ CodecIdle /\ CondIdle /\ ShutIdle /\ ObjIdle
    /\ GifIdle /\ AclIdle /\ KeyIdle

SpecCancel == InitCancel /\ [][CancelNext]_vars

ShutNext ==
    \/ \E h \in Handlers : Accept(h) /\ UNCHANGED <<optVars, diskVars, signVars, alignVars, xformVars, serveVars, cacheVars, codecVars, condVars, cancelVars, objVars, gifVars, aclVars, keyVars>>
    \/ \E h \in Handlers : WgAdd(h) /\ UNCHANGED <<optVars, diskVars, signVars, alignVars, xformVars, serveVars, cacheVars, codecVars, condVars, cancelVars, objVars, gifVars, aclVars, keyVars>>
    \/ \E h \in Handlers : ServeHTTP(h) /\ UNCHANGED <<optVars, diskVars, signVars, alignVars, xformVars, serveVars, cacheVars, codecVars, condVars, cancelVars, objVars, gifVars, aclVars, keyVars>>
    \/ \E h \in Handlers : WgDone(h) /\ UNCHANGED <<optVars, diskVars, signVars, alignVars, xformVars, serveVars, cacheVars, codecVars, condVars, cancelVars, objVars, gifVars, aclVars, keyVars>>
    \/ Signal /\ UNCHANGED <<optVars, diskVars, signVars, alignVars, xformVars, serveVars, cacheVars, codecVars, condVars, cancelVars, objVars, gifVars, aclVars, keyVars>>
    \/ ServerClose /\ UNCHANGED <<optVars, diskVars, signVars, alignVars, xformVars, serveVars, cacheVars, codecVars, condVars, cancelVars, objVars, gifVars, aclVars, keyVars>>
    \/ WgWait /\ UNCHANGED <<optVars, diskVars, signVars, alignVars, xformVars, serveVars, cacheVars, codecVars, condVars, cancelVars, objVars, gifVars, aclVars, keyVars>>

InitShut ==
    ShutInit /\ OptIdle /\ DiskIdle /\ SignIdle /\ AlignIdle /\ XformIdle /\ ServeIdle
    /\ CacheIdle /\ CodecIdle /\ CondIdle /\ CancelIdle /\ ObjIdle
    /\ GifIdle /\ AclIdle /\ KeyIdle

SpecShutdown == InitShut /\ [][ShutNext]_vars

ObjNext ==
    \/ \E u \in ObjURLs, fault \in ObjFaults :
          ObjRoundTrip(u, fault) /\ UNCHANGED <<optVars, diskVars, signVars, alignVars, xformVars, serveVars, cacheVars, codecVars, condVars, cancelVars, shutVars, gifVars, aclVars, keyVars>>
    \/ \E p \in ObjPaths, obj \in ObjObjects :
          PutObject(p, obj) /\ UNCHANGED <<optVars, diskVars, signVars, alignVars, xformVars, serveVars, cacheVars, codecVars, condVars, cancelVars, shutVars, gifVars, aclVars, keyVars>>
    \/ \E p \in ObjPaths :
          DeleteObject(p) /\ UNCHANGED <<optVars, diskVars, signVars, alignVars, xformVars, serveVars, cacheVars, codecVars, condVars, cancelVars, shutVars, gifVars, aclVars, keyVars>>

InitObject ==
    ObjInit /\ OptIdle /\ DiskIdle /\ SignIdle /\ AlignIdle /\ XformIdle /\ ServeIdle
    /\ CacheIdle /\ CodecIdle /\ CondIdle /\ CancelIdle /\ ShutIdle
    /\ GifIdle /\ AclIdle /\ KeyIdle

SpecObject == InitObject /\ [][ObjNext]_vars

ProxyNext ==
    \E r \in ProxyInbound, origin \in ProxyOrigins(tclock) :
        ProxyServeImage(r, origin) /\ UNCHANGED <<optVars, diskVars, signVars, alignVars, xformVars, codecVars, condVars, cancelVars, shutVars, objVars, gifVars, aclVars, keyVars>>

InitProxy ==
    ProxyInit /\ OptIdle /\ DiskIdle /\ SignIdle /\ AlignIdle /\ XformIdle
    /\ CodecIdle /\ CondIdle /\ CancelIdle /\ ShutIdle /\ ObjIdle
    /\ GifIdle /\ AclIdle /\ KeyIdle

SpecProxy == InitProxy /\ [][ProxyNext]_vars

GifNext ==
    \/ GifFrame /\ UNCHANGED <<optVars, diskVars, signVars, alignVars, xformVars, serveVars, cacheVars, codecVars, condVars, cancelVars, shutVars, objVars, aclVars, keyVars>>
    \/ GifEncodeAll /\ UNCHANGED <<optVars, diskVars, signVars, alignVars, xformVars, serveVars, cacheVars, codecVars, condVars, cancelVars, shutVars, objVars, aclVars, keyVars>>

InitGif ==
    GifInit /\ OptIdle /\ DiskIdle /\ SignIdle /\ AlignIdle /\ XformIdle /\ ServeIdle
    /\ CacheIdle /\ CodecIdle /\ CondIdle /\ CancelIdle /\ ShutIdle /\ ObjIdle
    /\ AclIdle /\ KeyIdle

SpecGif == InitGif /\ [][GifNext]_vars

KeyNext == ServePair /\ UNCHANGED <<optVars, diskVars, signVars, alignVars, xformVars, serveVars, cacheVars, codecVars, condVars, cancelVars, shutVars, objVars, gifVars, aclVars>>

InitKey ==
    KeyInit /\ OptIdle /\ DiskIdle /\ SignIdle /\ AlignIdle /\ XformIdle /\ ServeIdle
    /\ CacheIdle /\ CodecIdle /\ CondIdle /\ CancelIdle /\ ShutIdle /\ ObjIdle
    /\ GifIdle /\ AclIdle

SpecKey == InitKey /\ [][KeyNext]_vars

AclNext == CheckHost /\ UNCHANGED <<optVars, diskVars, signVars, alignVars, xformVars, serveVars, cacheVars, codecVars, condVars, cancelVars, shutVars, objVars, gifVars, keyVars>>

InitAcl ==
    AclInit /\ OptIdle /\ DiskIdle /\ SignIdle /\ AlignIdle /\ XformIdle /\ ServeIdle
    /\ CacheIdle /\ CodecIdle /\ CondIdle /\ CancelIdle /\ ShutIdle /\ ObjIdle
    /\ GifIdle /\ KeyIdle

SpecAcl == InitAcl /\ [][AclNext]_vars

ForgeNext ==
    \/ Tick /\ UNCHANGED <<optVars, diskVars, alignVars, xformVars, serveVars, cacheVars, codecVars, condVars, cancelVars, shutVars, objVars, gifVars, aclVars, keyVars>>
    \/ \E p \in ForgePaths, ts \in ForgeVersions, e \in ForgeExpiries :
          IssueWithTime(p, ts, e) /\ UNCHANGED <<optVars, diskVars, alignVars, xformVars, serveVars, cacheVars, codecVars, condVars, cancelVars, shutVars, objVars, gifVars, aclVars, keyVars>>
    \/ \E p \in ForgePaths, ts \in ForgeVersions, tk \in PresentedTokens :
          Verify(p, ts, tk) /\ UNCHANGED <<optVars, diskVars, alignVars, xformVars, serveVars, cacheVars, codecVars, condVars, cancelVars, shutVars, objVars, gifVars, aclVars, keyVars>>

SpecForge == InitSign /\ [][ForgeNext]_vars

Spec == SpecOptions

====
